---- MODULE Spec2Model ----
(***************************************************************************)
(* Model of electroncash_gui/qt/network_dialog.py.                         *)
(*                                                                         *)
(* Part 1 (specification Spec): TorDetector, the worker thread that probes *)
(* local ports for a Tor SOCKS proxy, together with the threads that talk  *)
(* to it: the UI thread (start, stop) and the Tor controller's thread      *)
(* (on_tor_port_changed).                                                  *)
(***************************************************************************)
EXTENDS Integers, Sequences, FiniteSets, TLC

\* Most 'kick' items the model lets pile up in one queue.Queue (the queue of
\* the code is unbounded).
MaxQueue == 2

\* ports = [9050, 9150]  (TorDetector.run)
ProbablePorts == <<9050, 9150>>

\* Values tor_controller.active_socks_port takes: 0 (no active port), one of
\* the probable ports, and a port that is not in the fixed list.
ActivePorts == {0, 9050, 9999}

\* The items of stopQ: stop() puts None, on_tor_port_changed puts 'kick'.
None == "None"
Kick == "kick"

\* What found_proxy carries: ("127.0.0.1", p), or None when no port answered.
NoProxy == <<>>
FoundProxy(p) == <<"127.0.0.1", p>>

VARIABLES
    \* ---- TorDetector (QThread) ----
    running,            \* QThread.isRunning()
    nthreads,           \* number of threads executing TorDetector.run
    pc,                 \* where the worker is in run()
    ports,              \* run(): the local list ports
    idx,                \* run(): position of the for loop in ports (1-based)
    stopQ,              \* contents of the queue self.stopQ refers to
    workerQ,            \* the queue object the worker's get() is blocked on:
                        \* "none", "self" (it is self.stopQ) or "old" (a queue
                        \* that start() has since replaced)
    oldQ,               \* contents of that replaced queue
    \* ---- network.tor_controller ----
    tc_enabled,         \* tor_controller.is_enabled()
    active_socks_port,  \* tor_controller.active_socks_port
    kick_pc,            \* on_tor_port_changed: "idle", or "put" between the
                        \* isRunning() test and stopQ.put('kick')
    \* ---- UI thread ----
    ui_pc,              \* "idle", or "wait" inside stop()'s self.wait()
    \* ---- observations (history, not program state) ----
    emitted,            \* found_proxy emissions of the current pass
    probed,             \* <<port, answer>> of each is_tor_port call of the pass
    tested,                \* controller state read by the test that guards insert
    wake,               \* how the last stopQ.get() ended
    kicked,             \* a kick was put while the worker was blocked in get()
    firstDone,          \* the first pass since start() has emitted its result
    stopEarly,          \* the last stop() was called before that
    stopped,            \* stop() has waited for the worker and returned
    hist                \* what the calls of start(), stop() and put() did:
                        \*   stopNoop: the last stop() found no running thread
                        \*   stale:    leading items of self.stopQ that were put
                        \*             before the current start() launched run()
                        \*   dropped:  items the last start() threw away
                        \*   owed:     kicks put during this run, before stop(),
                        \*             that no get() has returned yet

tdVars == <<running, nthreads, pc, ports, idx, stopQ, workerQ, oldQ,
            tc_enabled, active_socks_port, kick_pc, ui_pc,
            emitted, probed, tested, wake, kicked, firstDone, stopEarly, stopped,
            hist>>

VARIABLES
    \* ---- collaborators of NetworkChoiceLayout ----
    net,        \* network: parameters, ban list, preferred list
    cfg,        \* config keys (slp_gs_mgr keeps its two switches there)
    \* ---- NetworkChoiceLayout and NetworkDialog ----
    nl,         \* the layout's widgets and attributes
    visible,    \* NetworkDialog.isVisible()
    \* ---- observations (history, not program state) ----
    last        \* the handler that ran last and what it did

uiVars == <<net, cfg, nl, visible, last>>

VARIABLES
    \* ---- refresh rate limiting ----
    now,            \* time.time(), in ticks of a third of a second
    on_update_rl,   \* limiter of NetworkDialog.on_update
    job_update_rl,  \* limiter of SlpSearchJobListWidget.update
    \* ---- observations (history, not program state) ----
    redraws         \* times of the last two runs of each refresh

rlVars == <<now, on_update_rl, job_update_rl, redraws>>

VARIABLES
    \* ---- one list widget (QTreeWidget) and what it renders ----
    lw_kind,    \* which renderer it is
    lw_snap,    \* the collaborator's data its update() reads
    lw_rows,    \* its rows, top to bottom: [key, tag]
    lw_sel,     \* currentItem(): index into lw_rows, 0 for none
    \* ---- observations (history, not program state) ----
    lw_last     \* what was done last, and the key selected before it

lwVars == <<lw_kind, lw_snap, lw_rows, lw_sel, lw_last>>

VARIABLES
    \* ---- one call of TorDetector.is_tor_port ----
    pr_in,      \* the port and what the socket calls meet
    pr_out      \* the outcome of the call, NotCalled before it

prVars == <<pr_in, pr_out>>

VARIABLES
    \* ---- SlpSearchJobListWidget and its context menu ----
    jm_snap,    \* slp_gs_mgr: gs_enabled and jobs_copy()
    jm_rows,    \* the items of the job list, top first
    jm_sel,     \* currentItem(): index into jm_rows, 0 if none
    jm_menu     \* the context menu create_menu last showed, NoMenu before

jmVars == <<jm_snap, jm_rows, jm_sel, jm_menu>>

VARIABLES
    \* ---- SLPDB endpoints (validation tab) ----
    sd_text,    \* slp_slpdb_server_host.text()
    sd_hosts,   \* slp_gs_mgr.slpdb_host
    sd_max,     \* slp_slider.maximum()
    sd_rows,    \* the rows of slp_slpdb_list_widget
    sd_last     \* the call of slpdb_endpoint_msg_box on this text: the text, the box
                \* shown, the answer, and the endpoint list and the slider's
                \* maximum before (0) and after (1) it

sdVars == <<sd_text, sd_hosts, sd_max, sd_rows, sd_last>>

VARIABLES
    \* ---- NetworkDialog window, its tabs and timers ----
    sh_tab,         \* tabs.currentWidget()
    sh_minimized,   \* the window is iconified (isVisible() stays true)
    timers          \* isActive() of refresh_timer and workaround_timer

shVars == <<sh_tab, sh_minimized, timers>>

VARIABLES
    \* ---- threads and the UI thread's event loop ----
    ct_queue,   \* calls posted to the UI thread's event loop and not yet
                \* run: <<handler, posting thread>>, oldest first
    ct_execs    \* (history) <<handler, thread it ran on, thread that
                \* produced the call>> of every handler that has run

ctVars == <<ct_queue, ct_execs>>

VARIABLES
    \* ---- the 'Banned Servers' dialog ----
    bl_calls,   \* network.server_set_blacklisted calls of the last
                \* on_clear_blacklist: [server, bl, save], in call order
    bl_last     \* that call's outcome: the ban list it met, the answer to the
                \* question, whether update() ran, the value returned

blVars == <<bl_calls, bl_last>>

\* The variables outside the detector and the tabs of the dialog, and the
\* same without one group.
otherVars == <<rlVars, lwVars, prVars, jmVars, sdVars, shVars, ctVars, blVars>>
rlRest == <<lwVars, prVars, jmVars, sdVars, shVars, ctVars, blVars>>
lwRest == <<rlVars, prVars, jmVars, sdVars, shVars, ctVars, blVars>>
prRest == <<rlVars, lwVars, jmVars, sdVars, shVars, ctVars, blVars>>
jmRest == <<rlVars, lwVars, prVars, sdVars, shVars, ctVars, blVars>>
sdRest == <<rlVars, lwVars, prVars, jmVars, shVars, ctVars, blVars>>
shRest == <<rlVars, lwVars, prVars, jmVars, sdVars, ctVars, blVars>>
ctRest == <<rlVars, lwVars, prVars, jmVars, sdVars, shVars, blVars>>
blRest == <<rlVars, lwVars, prVars, jmVars, sdVars, shVars, ctVars>>

vars == <<tdVars, uiVars, otherVars>>

Min(a, b) == IF a < b THEN a ELSE b

\* The queue the worker's pending get() reads.
WorkerQueue == IF workerQ = "old" THEN oldQ ELSE stopQ

\* Outcomes of TorDetector.is_tor_port(p): whether something that answers as
\* Tor listens on p is up to the environment; nothing listens on port 0.
IsTorPortOutcomes(p) == IF p = 0 THEN {FALSE} ELSE BOOLEAN

InitTD ==
    /\ running = FALSE
    /\ nthreads = 0
    /\ pc = "idle"
    /\ ports = <<>>
    /\ idx = 1
    /\ stopQ = <<>>
    /\ workerQ = "none"
    /\ oldQ = <<>>
    /\ tc_enabled \in BOOLEAN
    /\ active_socks_port = 0
    /\ kick_pc = "idle"
    /\ ui_pc = "idle"
    /\ emitted = <<>>
    /\ probed = <<>>
    /\ tested = [enabled |-> FALSE, port |-> 0, ins |-> 0]
    /\ wake = "none"
    /\ kicked = FALSE
    /\ firstDone = FALSE
    /\ stopEarly = FALSE
    /\ stopped = FALSE
    /\ hist = [stopNoop |-> FALSE, stale |-> 0, dropped |-> 0, owed |-> 0]

----------------------------------------------------------------------------
(* UI thread: TorDetector.start and TorDetector.stop *)

\* QThread.start(): does nothing while the thread is running; otherwise marks
\* it running (synchronously) and launches run().
QThread_start ==
    IF running
    THEN UNCHANGED <<running, nthreads, pc, ports, idx, emitted, probed, wake,
                     firstDone>>
    ELSE /\ running' = TRUE
         /\ nthreads' = nthreads + 1
         /\ pc' = "top"
         /\ UNCHANGED <<ports, idx>>
         /\ emitted' = <<>>
         /\ probed' = <<>>
         /\ wake' = "none"
         /\ firstDone' = FALSE

\* The record of start(): was_running is isRunning() at the call, kept the
\* number of items self.stopQ holds after it.
AfterStart(h, was_running, kept) ==
    [stopNoop |-> FALSE,
     stale    |-> Min(h.stale, kept),
     dropped  |-> IF was_running THEN h.dropped ELSE h.stale - Min(h.stale, kept),
     owed     |-> IF was_running THEN h.owed ELSE 0]

\* Seeded fault: start() that keeps the queue it has.
TD_start_keepq ==
    /\ ui_pc = "idle"
    /\ UNCHANGED <<stopQ, workerQ, oldQ>>
    /\ QThread_start
    /\ kicked' = (running /\ kicked)
    /\ stopped' = FALSE
    /\ stopEarly' = FALSE
    /\ hist' = AfterStart(hist, running, Len(stopQ'))
    /\ UNCHANGED <<tc_enabled, active_socks_port, kick_pc, ui_pc, tested>>
    /\ UNCHANGED <<uiVars, otherVars>>

\* start(): self.stopQ = queue.Queue(); super().start()
\* The new queue replaces self.stopQ whether or not the worker is running; a
\* worker blocked in get() stays on the queue object it called get() on.
TorDetector_start ==
    /\ ui_pc = "idle"
    /\ stopQ' = <<>>
    /\ IF workerQ = "self"
       THEN workerQ' = "old" /\ oldQ' = stopQ
       ELSE UNCHANGED <<workerQ, oldQ>>
    /\ QThread_start
    /\ kicked' = (running /\ kicked)
    /\ stopped' = FALSE
    /\ stopEarly' = FALSE
    /\ hist' = AfterStart(hist, running, Len(stopQ'))
    /\ UNCHANGED <<tc_enabled, active_socks_port, kick_pc, ui_pc, tested>>

\* td.start() called on its own.
TD_start ==
    /\ TorDetector_start
    /\ UNCHANGED <<uiVars, otherVars>>

\* Seeded fault: stop() that does not wait() for the worker.
TD_stop_nowait ==
    /\ ui_pc = "idle"
    /\ IF running
       THEN /\ stopQ' = Append(stopQ, None)
            /\ stopEarly' = ~firstDone
            /\ stopped' = TRUE
       ELSE UNCHANGED <<stopQ, stopEarly, stopped>>
    /\ UNCHANGED <<running, nthreads, pc, ports, idx, workerQ, oldQ, tc_enabled,
                   active_socks_port, kick_pc, ui_pc, emitted, probed, tested,
                   wake, kicked, firstDone>>
    /\ hist' = [hist EXCEPT !.stopNoop = ~running]
    /\ UNCHANGED <<uiVars, otherVars>>

\* Seeded fault: stop() without the isRunning() test.
TD_stop_always ==
    /\ ui_pc = "idle"
    /\ stopQ' = Append(stopQ, None)
    /\ ui_pc' = "wait"
    /\ stopEarly' = ~firstDone
    /\ UNCHANGED <<running, nthreads, pc, ports, idx, workerQ, oldQ, tc_enabled,
                   active_socks_port, kick_pc, emitted, probed, tested, wake,
                   kicked, firstDone, stopped>>
    /\ hist' = [hist EXCEPT !.stopNoop = ~running]
    /\ UNCHANGED <<uiVars, otherVars>>

\* stop(): if self.isRunning(): self.stopQ.put(None); self.wait()
TorDetector_stop ==
    /\ ui_pc = "idle"
    /\ IF running
       THEN /\ stopQ' = Append(stopQ, None)
            /\ ui_pc' = "wait"
            /\ stopEarly' = ~firstDone
       ELSE UNCHANGED <<stopQ, ui_pc, stopEarly>>
    /\ UNCHANGED <<running, nthreads, pc, ports, idx, workerQ, oldQ, tc_enabled,
                   active_socks_port, kick_pc, emitted, probed, tested, wake,
                   kicked, firstDone, stopped>>
    /\ hist' = [hist EXCEPT !.stopNoop = ~running]

\* td.stop() called on its own.
TD_stop ==
    /\ TorDetector_stop
    /\ UNCHANGED <<uiVars, otherVars>>

\* QThread.wait() returns once the thread has finished; stop() then returns.
TD_stop_return ==
    /\ ui_pc = "wait"
    /\ ~running
    /\ ui_pc' = "idle"
    /\ stopped' = TRUE
    /\ UNCHANGED <<running, nthreads, pc, ports, idx, stopQ, workerQ, oldQ,
                   tc_enabled, active_socks_port, kick_pc, emitted, probed, tested,
                   wake, kicked, firstDone, stopEarly>>
    /\ UNCHANGED <<hist, uiVars, otherVars>>

----------------------------------------------------------------------------
(* Tor controller thread *)

\* The controller's active SOCKS port changes to p and the controller calls
\* its active_port_changed callbacks, of which TorDetector.on_tor_port_changed
\* is one: if controller.active_socks_port and self.isRunning(): ...
TC_port_changed(p) ==
    /\ kick_pc = "idle"
    /\ p # active_socks_port
    /\ active_socks_port' = p
    /\ kick_pc' = IF p # 0 /\ running THEN "put" ELSE "idle"
    /\ UNCHANGED <<running, nthreads, pc, ports, idx, stopQ, workerQ, oldQ,
                   tc_enabled, ui_pc, emitted, probed, tested, wake, kicked,
                   firstDone, stopEarly, stopped>>
    /\ UNCHANGED <<hist, uiVars, otherVars>>

\* on_tor_port_changed: self.stopQ.put('kick'), on the queue self.stopQ
\* refers to when the put runs.
TD_kick_put ==
    /\ kick_pc = "put"
    /\ Len(stopQ) < MaxQueue
    /\ stopQ' = Append(stopQ, Kick)
    /\ kick_pc' = "idle"
    /\ kicked' = (kicked \/ (pc = "get" /\ WorkerQueue = <<>>))
    /\ UNCHANGED <<running, nthreads, pc, ports, idx, workerQ, oldQ, tc_enabled,
                   active_socks_port, ui_pc, emitted, probed, tested, wake,
                   firstDone, stopEarly, stopped>>
    /\ hist' = IF ~running
               THEN [hist EXCEPT !.stale = @ + 1]
               ELSE IF ui_pc = "idle"
                    THEN [hist EXCEPT !.owed = Min(@ + 1, MaxQueue + 1)]
                    ELSE hist
    /\ UNCHANGED <<uiVars, otherVars>>

\* tor_controller.set_enabled(b)
TC_set_enabled(b) ==
    /\ tc_enabled # b
    /\ tc_enabled' = b
    /\ UNCHANGED <<running, nthreads, pc, ports, idx, stopQ, workerQ, oldQ,
                   active_socks_port, kick_pc, ui_pc, emitted, probed, tested,
                   wake, kicked, firstDone, stopEarly, stopped>>
    /\ UNCHANGED <<hist, uiVars, otherVars>>

----------------------------------------------------------------------------
(* Worker thread: TorDetector.run *)

\* Seeded fault: the test that guards the insert ignores is_enabled().
TD_check_noenabled ==
    /\ pc = "top"
    /\ ports' = ProbablePorts
    /\ idx' = 1
    /\ emitted' = <<>>
    /\ probed' = <<>>
    /\ tested' = [enabled |-> tc_enabled, port |-> active_socks_port, ins |-> 0]
    /\ pc' = IF active_socks_port # 0 THEN "insert" ELSE "loop"
    /\ UNCHANGED <<running, nthreads, stopQ, workerQ, oldQ, tc_enabled,
                   active_socks_port, kick_pc, ui_pc, wake, kicked, firstDone,
                   stopEarly, stopped>>
    /\ UNCHANGED <<hist, uiVars, otherVars>>

\* Top of the while loop: ports = [9050, 9150], then the test
\* tor_controller and tor_controller.is_enabled() and
\* tor_controller.active_socks_port. (The controller object always exists:
\* __init__ dereferences it.)
TD_check ==
    /\ pc = "top"
    /\ ports' = ProbablePorts
    /\ idx' = 1
    /\ emitted' = <<>>
    /\ probed' = <<>>
    /\ tested' = [enabled |-> tc_enabled, port |-> active_socks_port, ins |-> 0]
    /\ pc' = IF tc_enabled /\ active_socks_port # 0 THEN "insert" ELSE "loop"
    /\ UNCHANGED <<running, nthreads, stopQ, workerQ, oldQ, tc_enabled,
                   active_socks_port, kick_pc, ui_pc, wake, kicked, firstDone,
                   stopEarly, stopped>>
    /\ UNCHANGED <<hist, uiVars, otherVars>>

\* ports.insert(0, tor_controller.active_socks_port): a second read of the
\* port, which the controller's thread may have changed since the test.
TD_insert ==
    /\ pc = "insert"
    /\ ports' = <<active_socks_port>> \o ports
    /\ tested' = [tested EXCEPT !.ins = active_socks_port]
    /\ pc' = "loop"
    /\ UNCHANGED <<running, nthreads, idx, stopQ, workerQ, oldQ, tc_enabled,
                   active_socks_port, kick_pc, ui_pc, emitted, probed,
                   wake, kicked, firstDone, stopEarly, stopped>>
    /\ UNCHANGED <<hist, uiVars, otherVars>>

\* Seeded fault: the for loop without its break.
TD_probe_nobreak ==
    /\ pc = "loop"
    /\ idx <= Len(ports)
    /\ \E r \in IsTorPortOutcomes(ports[idx]) :
         /\ probed' = Append(probed, <<ports[idx], r>>)
         /\ idx' = idx + 1
         /\ emitted' = IF r THEN Append(emitted, FoundProxy(ports[idx]))
                            ELSE emitted
         /\ firstDone' = (firstDone \/ r)
    /\ UNCHANGED <<running, nthreads, pc, ports, stopQ, workerQ, oldQ,
                   tc_enabled, active_socks_port, kick_pc, ui_pc, tested, wake,
                   kicked, stopEarly, stopped>>
    /\ UNCHANGED <<hist, uiVars, otherVars>>

\* One iteration of  for p in ports: if is_tor_port(p): emit((host, p)); break
\* After the break the worker calls self.stopQ.get(timeout=10.0), which blocks
\* on the queue self.stopQ refers to at that moment.
TD_probe ==
    /\ pc = "loop"
    /\ idx <= Len(ports)
    /\ \E r \in IsTorPortOutcomes(ports[idx]) :
         /\ probed' = Append(probed, <<ports[idx], r>>)
         /\ IF r
            THEN /\ emitted' = Append(emitted, FoundProxy(ports[idx]))
                 /\ pc' = "get"
                 /\ workerQ' = "self"
                 /\ firstDone' = TRUE
                 /\ UNCHANGED idx
            ELSE /\ idx' = idx + 1
                 /\ UNCHANGED <<emitted, pc, workerQ, firstDone>>
    /\ UNCHANGED <<running, nthreads, ports, stopQ, oldQ, tc_enabled,
                   active_socks_port, kick_pc, ui_pc, tested, wake, kicked,
                   stopEarly, stopped>>
    /\ UNCHANGED <<hist, uiVars, otherVars>>

\* The for loop's else branch (no break): emit(None), then stopQ.get().
TD_emit_none ==
    /\ pc = "loop"
    /\ idx > Len(ports)
    /\ emitted' = Append(emitted, NoProxy)
    /\ pc' = "get"
    /\ workerQ' = "self"
    /\ firstDone' = TRUE
    /\ UNCHANGED <<running, nthreads, ports, idx, stopQ, oldQ, tc_enabled,
                   active_socks_port, kick_pc, ui_pc, probed, tested, wake, kicked,
                   stopEarly, stopped>>
    /\ UNCHANGED <<hist, uiVars, otherVars>>

\* What run() does with the item get() returned: None ends run() (and with it
\* the thread), anything else is a kick and leads to msleep(250).
AfterItem(item) == IF item = None THEN "finished" ELSE "msleep"

\* The record of a get() that returned item from queue q ("old" or not),
\* leaving left items in self.stopQ: an item put before this run began is
\* counted as such, a kick of this run is no longer owed, and what is left
\* when run() ends was put before any later run.
AfterGet(h, item, q, left) ==
    LET wasStale == q # "old" /\ h.stale > 0 IN
    [h EXCEPT !.stale = IF AfterItem(item) = "finished" THEN left
                        ELSE IF wasStale THEN @ - 1 ELSE @,
              !.owed  = IF item = Kick /\ ~wasStale /\ @ > 0 THEN @ - 1 ELSE @]

\* stopQ.get() returns the oldest item of the queue it is blocked on.
TD_get_item ==
    /\ pc = "get"
    /\ WorkerQueue # <<>>
    /\ LET item == Head(WorkerQueue) IN
         /\ pc' = AfterItem(item)
         /\ wake' = IF item = None THEN "stop" ELSE "kick"
         /\ running' = IF AfterItem(item) = "finished" THEN FALSE ELSE running
         /\ nthreads' = IF AfterItem(item) = "finished" THEN nthreads - 1
                                                         ELSE nthreads
    /\ IF workerQ = "old"
       THEN oldQ' = <<>> /\ UNCHANGED stopQ
       ELSE stopQ' = Tail(stopQ) /\ UNCHANGED oldQ
    /\ workerQ' = "none"
    /\ kicked' = FALSE
    /\ hist' = AfterGet(hist, Head(WorkerQueue), workerQ, Len(stopQ'))
    /\ UNCHANGED <<ports, idx, tc_enabled, active_socks_port, kick_pc, ui_pc,
                   emitted, probed, tested, firstDone, stopEarly, stopped>>
    /\ UNCHANGED <<uiVars, otherVars>>

\* Seeded fault: the timeout ends run().
AfterTimeout_ends == "finished"

\* Where run() goes on queue.Empty: continue (timeout, keep looping).
AfterTimeout == "top"

\* stopQ.get(timeout=10.0) raises queue.Empty: nothing arrived on the queue
\* the worker is blocked on.
TD_get_timeout ==
    /\ pc = "get"
    /\ WorkerQueue = <<>>
    /\ pc' = AfterTimeout
    /\ wake' = "timeout"
    /\ running' = IF AfterTimeout = "finished" THEN FALSE ELSE running
    /\ nthreads' = IF AfterTimeout = "finished" THEN nthreads - 1 ELSE nthreads
    /\ workerQ' = "none"
    /\ oldQ' = <<>>
    /\ kicked' = FALSE
    /\ hist' = IF AfterTimeout = "finished"
               THEN [hist EXCEPT !.stale = Len(stopQ)] ELSE hist
    /\ UNCHANGED <<ports, idx, stopQ, tc_enabled, active_socks_port, kick_pc,
                   ui_pc, emitted, probed, tested, firstDone, stopEarly, stopped>>
    /\ UNCHANGED <<uiVars, otherVars>>

\* QThread.msleep(250); continue
TD_msleep ==
    /\ pc = "msleep"
    /\ pc' = "top"
    /\ UNCHANGED <<running, nthreads, ports, idx, stopQ, workerQ, oldQ,
                   tc_enabled, active_socks_port, kick_pc, ui_pc, emitted,
                   probed, tested, wake, kicked, firstDone, stopEarly, stopped>>
    /\ UNCHANGED <<hist, uiVars, otherVars>>

----------------------------------------------------------------------------
(***************************************************************************)
(* Part 2 (specification SpecUI): NetworkDialog and NetworkChoiceLayout,   *)
(* all on the UI thread.  A host name is the sequence of its labels; a     *)
(* server is identified by its host (port and protocol letter of the       *)
(* serialized key are left out).                                           *)
(***************************************************************************)

\* The servers network.get_servers() returns.
ServerHosts == {<<"node", "example">>, <<"abc", "onion">>}

\* What may stand in the server_host field: a listed host, or one typed in.
Hosts == ServerHosts \cup {<<"ABC", "ONION">>}

\* str.lower() on the labels that occur.
Lower(l) ==
    CASE l = "ONION" -> "onion"
      [] l = "ABC" -> "abc"
      [] l = "SOCKS4" -> "socks4"
      [] l = "SOCKS5" -> "socks5"
      [] l = "HTTP" -> "http"
      [] OTHER -> l

\* host.lower().endswith('.onion')
IsOnion(h) == Lower(h[Len(h)]) = "onion"

\* self.proxy_mode.addItems(['SOCKS4', 'SOCKS5', 'HTTP'])
ProxyModes == <<"SOCKS4", "SOCKS5", "HTTP">>

\* proxy_mode.findText(t): the index of t (0-based), -1 when absent.
FindText(t) ==
    IF \E i \in 1..Len(ProxyModes) : ProxyModes[i] = t
    THEN (CHOOSE i \in 1..Len(ProxyModes) : ProxyModes[i] = t) - 1
    ELSE -1

\* Texts of the proxy host and port fields that occur.
ProxyHosts == {"localhost", "127.0.0.1"}
ProxyPorts == {"9050", "9150"}

\* str(port) for the ports the detector reports.
Str(p) == IF p = 9050 THEN "9050" ELSE IF p = 9150 THEN "9150" ELSE "9999"

\* The results the detector's found_proxy signal delivers to suggest_proxy.
ProbeResults == {NoProxy, FoundProxy(9050), FoundProxy(9150)}

\* proxy = None in network.set_parameters / get_parameters.
ProxyNone == [mode |-> "none", host |-> "", port |-> ""]

\* ServerFlag
Banned == 2
Preferred == 1

\* flagval of a server row (ServerListWidget.update).
FlagVal(N, h) ==
    (IF h \in N.blacklist THEN Banned ELSE 0)
      + (IF h \in N.whitelist THEN Preferred ELSE 0)

IsBannedFlag(f) == f >= Banned
IsPreferredFlag(f) == f % 2 = 1

\* ServerListWidget.update(network, servers, protocol, use_tor): one row per
\* server, .onion servers only when use_tor.
ServerRows(N, use_tor) ==
    { [server |-> h, flagval |-> FlagVal(N, h)] :
        h \in {x \in ServerHosts : ~(IsOnion(x) /\ ~use_tor)} }

\* network.set_parameters(host, port, protocol, proxy, auto_connect)
network_set_parameters(N, host, protocol, proxy, auto) ==
    [N EXCEPT !.host = host, !.protocol = protocol, !.proxy = proxy,
              !.auto_connect = auto]

\* network.server_set_blacklisted(server, bl, save)
server_set_blacklisted(N, server, bl) ==
    [N EXCEPT !.blacklist = IF bl THEN @ \cup {server} ELSE @ \ {server}]

\* network.server_set_whitelisted(server, flag, save)
server_set_whitelisted(N, server, flag) ==
    [N EXCEPT !.whitelist = IF flag THEN @ \cup {server} ELSE @ \ {server}]

\* network.set_whitelist_only(b)
set_whitelist_only(N, b) == [N EXCEPT !.whitelist_only = b]

\* slp_gs_mgr.toggle_graph_search(b)
toggle_graph_search(C, b) == [C EXCEPT !.slp_validator_graphsearch_enabled = b]

\* slp_gs_mgr.toggle_slpdb_validation(b)
toggle_slpdb_validation(C, b) ==
    [C EXCEPT !.slp_validator_slpdb_validation_enabled = b]

\* NetworkChoiceLayout.get_set_server_flags()[1], read by enable_set_server()
\* once update() has set the two checkboxes from the network.
NotAutoAfter(N) == ~N.auto_connect /\ ~N.whitelist_only

\* Seeded fault: can_set_server that ignores the ban list.
can_set_server_noban(N, server) ==
    ~N.whitelist_only \/ server \in N.whitelist

\* NetworkChoiceLayout.can_set_server(server)
can_set_server(N, server) ==
    /\ server \notin N.blacklist
    /\ (~N.whitelist_only \/ server \in N.whitelist)

\* Seeded fault: update() that leaves the SSL checkbox enabled.
update_ssl_enabled(L, N, C) ==
    [L EXCEPT
       !.server_host = IF L.host_focus THEN @ ELSE N.host,
       !.ssl_cb = (N.protocol = "s"),
       !.ssl_cb_disabled = FALSE,
       !.autoconnect_cb = N.auto_connect,
       !.preferred_only_cb = N.whitelist_only,
       !.rows = ServerRows(N, L.tor_cb),
       !.server_host_enabled = NotAutoAfter(N),
       !.slp_gs_enable_cb = C.slp_validator_graphsearch_enabled]

\* NetworkChoiceLayout.update(): the layout after a refresh from the
\* network N and the config C.
update(L, N, C) ==
    [L EXCEPT
       !.server_host = IF L.host_focus THEN @ ELSE N.host,
       !.ssl_cb = (N.protocol = "s"),
       !.ssl_cb_disabled =
            (N.protocol = "s") /\ ~L.tor_cb /\ ~IsOnion(N.host),
       !.autoconnect_cb = N.auto_connect,
       !.preferred_only_cb = N.whitelist_only,
       !.rows = ServerRows(N, L.tor_cb),
       !.server_host_enabled = NotAutoAfter(N),
       !.slp_gs_enable_cb = C.slp_validator_graphsearch_enabled]

\* Seeded fault: set_server whose .onion branch forces 't' but leaves the SSL
\* checkbox as it is.
set_server_sslkept(L, N, onion_hack) ==
    LET hack == onion_hack /\ IsOnion(L.server_host)
        protocol == IF hack THEN "t" ELSE IF L.ssl_cb THEN "s" ELSE "t"
    IN [nl |-> L,
        net |-> network_set_parameters(N, L.server_host, protocol, N.proxy,
                                       L.autoconnect_cb)]

\* NetworkChoiceLayout.set_server(onion_hack): the layout and the network
\* after the call.
set_server(L, N, onion_hack) ==
    LET hack == onion_hack /\ IsOnion(L.server_host)
        protocol == IF hack THEN "t" ELSE IF L.ssl_cb THEN "s" ELSE "t"
    IN [nl |-> IF hack THEN [L EXCEPT !.ssl_cb = FALSE] ELSE L,
        net |-> network_set_parameters(N, L.server_host, protocol, N.proxy,
                                       L.autoconnect_cb)]

\* NetworkChoiceLayout.set_proxy(): the network after the call.
set_proxy(L, N) ==
    network_set_parameters(N, N.host, N.protocol,
        IF L.proxy_cb
        THEN [mode |-> Lower(L.proxy_mode), host |-> L.proxy_host,
              port |-> L.proxy_port]
        ELSE ProxyNone,
        N.auto_connect)

\* Seeded fault: check_disable_proxy without the tor_use test.
check_disable_proxy_notor(L, b) ==
    [L EXCEPT !.proxy_fields_enabled = b]

\* Seeded fault: _set_tor_use that leaves the attribute tor_use as it is.
set_tor_use_keep(L, use_it) ==
    check_disable_proxy_notor(
        [L EXCEPT !.tor_cb = use_it, !.proxy_cb_enabled = ~use_it],
        ~use_it /\ ~L.tor_use)

\* NetworkChoiceLayout.check_disable_proxy(b); config.is_modifiable('proxy')
\* holds.
check_disable_proxy(L, b) ==
    [L EXCEPT !.proxy_fields_enabled = b /\ ~L.tor_use]

\* NetworkChoiceLayout._set_tor_use(use_it): the layout after the call (the
\* caller stores config key 'tor_use').
set_tor_use(L, use_it) ==
    check_disable_proxy(
        [L EXCEPT !.tor_use = use_it, !.tor_cb = use_it,
                  !.proxy_cb_enabled = ~use_it],
        ~use_it)

\* The record kept in last: op names the handler when it is one of the
\* mutation requests or closeEvent and is "other" otherwise; upd tells whether
\* the handler ended with update().
Did(op, upd) == [op |-> op, upd |-> upd, asked |-> FALSE, ok |-> FALSE,
                 noprompt0 |-> FALSE]

\* State after NetworkChoiceLayout.__init__ (fill_in_proxy_settings() and
\* update() included) with a fresh config: SSL server, no proxy.
InitNet ==
    [host |-> <<"node", "example">>, protocol |-> "s", proxy |-> ProxyNone,
     auto_connect |-> TRUE, whitelist_only |-> FALSE, blacklist |-> {},
     whitelist |-> {<<"node", "example">>}]

InitCfg ==
    [non_ssl_noprompt |-> FALSE, tor_use |-> FALSE,
     slp_validator_graphsearch_enabled |-> FALSE,
     slp_validator_slpdb_validation_enabled |-> FALSE]

InitLayout ==
    update(
      [server_host |-> <<"node", "example">>, host_focus |-> FALSE,
       server_host_enabled |-> TRUE, ssl_cb |-> FALSE,
       ssl_cb_disabled |-> FALSE, autoconnect_cb |-> FALSE,
       preferred_only_cb |-> FALSE, rows |-> {},
       tor_use |-> FALSE, tor_proxy |-> NoProxy, tor_cb |-> FALSE,
       tor_cb_enabled |-> FALSE, proxy_cb |-> FALSE,
       proxy_cb_enabled |-> TRUE, proxy_fields_enabled |-> FALSE,
       proxy_mode |-> "SOCKS4", proxy_host |-> "localhost",
       proxy_port |-> "9050",
       slp_gs_enable_cb |-> FALSE, slp_slpdb_enable_cb |-> FALSE],
      InitNet, InitCfg)

\* str(proxy_config.get("mode").upper())
Upper(l) ==
    CASE l = "socks4" -> "SOCKS4"
      [] l = "socks5" -> "SOCKS5"
      [] l = "http" -> "HTTP"
      [] OTHER -> l

\* NetworkChoiceLayout.fill_in_proxy_settings(): the layout after the call,
\* for the parameters N of the network and the config C (the key 'tor_use'
\* is stored back as it was read).
fill_in_proxy_settings(L, N, C) ==
    LET proxy_config == IF N.proxy = ProxyNone
                        THEN [mode |-> "none", host |-> "localhost", port |-> "9050"]
                        ELSE N.proxy
        b == proxy_config.mode # "none"
        L1 == check_disable_proxy(set_tor_use(L, C.tor_use), b)
        L2 == IF b THEN [L1 EXCEPT !.proxy_cb = TRUE,
                                   !.proxy_mode = Upper(proxy_config.mode)]
                   ELSE L1
    IN [L2 EXCEPT !.proxy_host = proxy_config.host,
                  !.proxy_port = proxy_config.port]

\* Proxy settings the network may hold when the dialog is constructed.
PersistedProxies ==
    {ProxyNone,
     [mode |-> "socks5", host |-> "127.0.0.1", port |-> "9050"],
     [mode |-> "socks4", host |-> "localhost", port |-> "9150"]}

\* State after NetworkChoiceLayout.__init__ with a proxy and a 'tor_use' key
\* kept from an earlier session.
InitUIPersisted ==
    /\ net \in {[InitNet EXCEPT !.proxy = p] : p \in PersistedProxies}
    /\ cfg \in {[InitCfg EXCEPT !.tor_use = t] : t \in BOOLEAN}
    /\ nl = update(fill_in_proxy_settings(InitLayout, net, cfg), net, cfg)
    /\ visible = TRUE
    /\ last = Did("other", TRUE)

InitUI ==
    /\ net = InitNet
    /\ cfg = InitCfg
    /\ nl = InitLayout
    /\ visible = TRUE
    /\ last = Did("other", TRUE)

----------------------------------------------------------------------------
(* Handlers of the server tab *)

\* NetworkDialog.on_update (network callback, refresh timer): nlayout.update()
UI_on_update ==
    /\ nl' = update(nl, net, cfg)
    /\ last' = Did("other", TRUE)
    /\ UNCHANGED <<net, cfg, visible, tdVars, otherVars>>

\* The user puts the cursor in the server_host field and types h.
UI_edit_host(h) ==
    /\ visible
    /\ nl.server_host_enabled
    /\ nl' = [nl EXCEPT !.server_host = h, !.host_focus = TRUE]
    /\ last' = Did("other", FALSE)
    /\ UNCHANGED <<net, cfg, visible, tdVars, otherVars>>

\* server_host.editingFinished: set_server(onion_hack=True)
UI_host_editingFinished ==
    /\ visible
    /\ nl.host_focus
    /\ LET r == set_server(nl, net, TRUE) IN
         /\ nl' = [r.nl EXCEPT !.host_focus = FALSE]
         /\ net' = r.net
    /\ last' = Did("other", FALSE)
    /\ UNCHANGED <<cfg, visible, tdVars, otherVars>>

\* ssl_cb.clicked: change_protocol(use_ssl), which ends in set_server()
UI_change_protocol ==
    /\ visible
    /\ ~nl.ssl_cb_disabled
    /\ LET r == set_server([nl EXCEPT !.ssl_cb = ~nl.ssl_cb], net, FALSE) IN
         /\ nl' = r.nl
         /\ net' = r.net
    /\ last' = Did("other", FALSE)
    /\ UNCHANGED <<cfg, visible, tdVars, otherVars>>

\* autoconnect_cb.clicked(checked) is connected to set_server, whose one
\* parameter onion_hack receives checked, and then to update.
UI_autoconnect_clicked ==
    /\ visible
    /\ LET r == set_server([nl EXCEPT !.autoconnect_cb = ~nl.autoconnect_cb],
                           net, ~nl.autoconnect_cb) IN
         /\ net' = r.net
         /\ nl' = update(r.nl, r.net, cfg)
    /\ last' = Did("other", TRUE)
    /\ UNCHANGED <<cfg, visible, tdVars, otherVars>>

\* preferred_only_cb.clicked: set_whitelisted_only(b)
UI_set_whitelisted_only ==
    /\ visible
    /\ LET b == ~nl.preferred_only_cb
           r == set_server([nl EXCEPT !.preferred_only_cb = b],
                           set_whitelist_only(net, b), FALSE) IN
         /\ net' = r.net
         /\ nl' = update(r.nl, r.net, cfg)
    /\ last' = Did("set_whitelisted_only", TRUE)
    /\ UNCHANGED <<cfg, visible, tdVars, otherVars>>

\* ServerListWidget.create_menu(position) on the row of a server: what the
\* context menu offers.  'Use as server' is enabled when can_set_server(server)
\* and the row is not flagged Banned; the preferred action exists only on a
\* row that is not flagged Banned; the ban action is always there.
ServerListWidget_create_menu(N, row) ==
    LET isbl == IsBannedFlag(row.flagval)
        iswl == IsPreferredFlag(row.flagval) IN
      [use_enabled |-> can_set_server(N, row.server) /\ ~isbl,
       use_text |-> IF isbl THEN "Server banned"
                    ELSE IF can_set_server(N, row.server) THEN "Use as server"
                    ELSE "host",
       fav_offered |-> ~isbl,
       fav_text |-> IF isbl THEN ""
                    ELSE IF iswl THEN "Remove from preferred"
                    ELSE "Add to preferred",
       ban_text |-> IF isbl THEN "Unban server" ELSE "Ban server"]

\* Server list menu 'Use as server' on the row of s (offered when
\* can_set_server(s), disabled on a row flagged Banned):
\* ServerListWidget.set_server(s)
UI_use_as_server(row) ==
    /\ visible
    /\ row \in nl.rows
    /\ ServerListWidget_create_menu(net, row).use_enabled
    /\ LET r == set_server([nl EXCEPT !.server_host = row.server,
                                      !.autoconnect_cb = FALSE], net, FALSE) IN
         /\ net' = r.net
         /\ nl' = update(r.nl, r.net, cfg)
    /\ last' = Did("use_as_server", TRUE)
    /\ UNCHANGED <<cfg, visible, tdVars, otherVars>>

\* Server list menu 'Ban server' / 'Unban server' on a row:
\* set_blacklisted(server, not isbl), isbl being the row's Banned flag.
UI_set_blacklisted(row) ==
    /\ visible
    /\ row \in nl.rows
    /\ LET r == set_server(nl,
                    server_set_blacklisted(net, row.server,
                                           ~IsBannedFlag(row.flagval)),
                    FALSE) IN
         /\ net' = r.net
         /\ nl' = update(r.nl, r.net, cfg)
    /\ last' = Did("set_blacklisted", TRUE)
    /\ UNCHANGED <<cfg, visible, tdVars, otherVars>>

\* Server list menu 'Add to preferred' / 'Remove from preferred' on a row that
\* is not flagged Banned: set_whitelisted(server, not iswl)
UI_set_whitelisted(row) ==
    /\ visible
    /\ row \in nl.rows
    /\ ServerListWidget_create_menu(net, row).fav_offered
    /\ LET r == set_server(nl,
                    server_set_whitelisted(net, row.server,
                                           ~IsPreferredFlag(row.flagval)),
                    FALSE) IN
         /\ net' = r.net
         /\ nl' = update(r.nl, r.net, cfg)
    /\ last' = Did("set_whitelisted", TRUE)
    /\ UNCHANGED <<cfg, visible, tdVars, otherVars>>

----------------------------------------------------------------------------
(* Handlers of the proxy tab *)

\* proxy_cb.clicked(b): check_disable_proxy(b), then set_proxy()
UI_proxy_cb_clicked ==
    /\ visible
    /\ nl.proxy_cb_enabled
    /\ LET b == ~nl.proxy_cb
           L == check_disable_proxy([nl EXCEPT !.proxy_cb = b], b) IN
         /\ nl' = L
         /\ net' = set_proxy(L, net)
    /\ last' = Did("set_proxy", FALSE)
    /\ UNCHANGED <<cfg, visible, tdVars, otherVars>>

\* The user changes proxy mode, host or port (currentIndexChanged,
\* editingFinished): set_proxy()
UI_proxy_edited(m, h, p) ==
    /\ visible
    /\ nl.proxy_fields_enabled
    /\ <<m, h, p>> # <<nl.proxy_mode, nl.proxy_host, nl.proxy_port>>
    /\ LET L == [nl EXCEPT !.proxy_mode = m, !.proxy_host = h,
                            !.proxy_port = p] IN
         /\ nl' = L
         /\ net' = set_proxy(L, net)
    /\ last' = Did("set_proxy", FALSE)
    /\ UNCHANGED <<cfg, visible, tdVars, otherVars>>

\* tor_cb.clicked(use_it): use_tor_proxy(use_it). findText('SOCKS5') is never
\* -1 with the items the combo box is given.
UI_use_tor_proxy ==
    /\ visible
    /\ nl.tor_cb_enabled
    /\ FindText("SOCKS5") # -1
    /\ LET use_it == ~nl.tor_cb
           L1 == set_tor_use(nl, use_it)
           L2 == IF use_it
                 THEN [L1 EXCEPT !.proxy_mode = ProxyModes[FindText("SOCKS5") + 1],
                                 !.proxy_host = "127.0.0.1",
                                 !.proxy_port = Str(nl.tor_proxy[2]),
                                 !.proxy_cb = TRUE]
                 ELSE [L1 EXCEPT !.proxy_cb = FALSE] IN
         /\ nl' = L2
         /\ cfg' = [cfg EXCEPT !.tor_use = use_it]
         /\ net' = set_proxy(L2, net)
    /\ last' = Did("use_tor_proxy", FALSE)
    /\ UNCHANGED <<visible, tdVars, otherVars>>

\* found_proxy signal of the detector: suggest_proxy(found_proxy)
UI_suggest_proxy(found) ==
    /\ IF found = NoProxy
       THEN /\ nl' = [set_tor_use(nl, FALSE) EXCEPT !.tor_cb_enabled = FALSE]
            /\ cfg' = [cfg EXCEPT !.tor_use = FALSE]
       ELSE LET same_proxy ==
                    /\ FindText(nl.proxy_mode) = FindText("SOCKS5")
                    /\ nl.proxy_host = found[1]
                    /\ nl.proxy_port = Str(found[2])
                    /\ nl.proxy_cb
            IN /\ nl' = [set_tor_use([nl EXCEPT !.tor_proxy = found],
                                     same_proxy)
                           EXCEPT !.tor_cb_enabled = TRUE]
               /\ cfg' = [cfg EXCEPT !.tor_use = same_proxy]
    /\ last' = Did("other", FALSE)
    /\ UNCHANGED <<net, visible, tdVars, otherVars>>

----------------------------------------------------------------------------
(* Handlers of the validation tab *)

\* slp_gs_enable_cb.clicked: use_slp_gs()
UI_use_slp_gs ==
    /\ visible
    /\ LET b == ~nl.slp_gs_enable_cb IN
         /\ cfg' = toggle_graph_search(cfg, b)
         /\ nl' = [nl EXCEPT !.slp_gs_enable_cb = b,
                             !.slp_slpdb_enable_cb = FALSE]
    /\ last' = Did("other", FALSE)
    /\ UNCHANGED <<net, visible, tdVars, otherVars>>

\* slp_slpdb_enable_cb.clicked: slpdb_msg_box(); answer_ok is the user's
\* answer to the warning shown when the box has just been checked.
UI_slpdb_msg_box(answer_ok) ==
    /\ visible
    /\ LET b == ~nl.slp_slpdb_enable_cb IN
         IF b
         THEN IF answer_ok
              THEN \* slp_gs_enable_cb.setChecked(False); use_slp_slpdb()
                   /\ nl' = [nl EXCEPT !.slp_slpdb_enable_cb = TRUE,
                                       !.slp_gs_enable_cb = FALSE]
                   /\ cfg' = toggle_slpdb_validation(cfg, TRUE)
              ELSE /\ nl' = [nl EXCEPT !.slp_slpdb_enable_cb = FALSE]
                   /\ UNCHANGED cfg
         ELSE /\ answer_ok
              /\ nl' = [nl EXCEPT !.slp_slpdb_enable_cb = FALSE]
              /\ cfg' = toggle_slpdb_validation(cfg, FALSE)
    /\ last' = Did("other", FALSE)
    /\ UNCHANGED <<net, visible, tdVars, otherVars>>

----------------------------------------------------------------------------
(* NetworkDialog *)

\* The test that opens closeEvent's security prompt.
non_ssl_prompt(L, C) ==
    /\ ~L.ssl_cb
    /\ ~L.tor_cb
    /\ ~IsOnion(L.server_host)
    /\ ~C.non_ssl_noprompt

\* Seeded fault: closeEvent without "if not ok: e.ignore(); return".
CloseProceeds_always(ok) == TRUE

\* Whether closeEvent goes on to super().closeEvent(e) when the prompt was
\* answered ok.
CloseProceeds(ok) == ok

\* Seeded fault: closeEvent that stores non_ssl_noprompt only after the
\* "if not ok" return.
UI_closeEvent_okfirst(ok, chk) ==
    /\ visible
    /\ LET asked == non_ssl_prompt(nl, cfg) IN
         /\ ~asked => (ok /\ ~chk)
         /\ cfg' = IF asked /\ chk /\ ok
                   THEN [cfg EXCEPT !.non_ssl_noprompt = TRUE]
                   ELSE cfg
         /\ visible' = IF asked /\ ~CloseProceeds(ok) THEN visible ELSE FALSE
         /\ last' = [op |-> "closeEvent", upd |-> FALSE, asked |-> asked,
                     ok |-> (asked /\ ok),
                     noprompt0 |-> cfg.non_ssl_noprompt]
    /\ UNCHANGED <<net, nl, tdVars, otherVars>>

\* NetworkDialog.closeEvent(e); (ok, chk) is the user's answer to the prompt
\* if it is shown.
UI_closeEvent(ok, chk) ==
    /\ visible
    /\ LET asked == non_ssl_prompt(nl, cfg) IN
         /\ ~asked => (ok /\ ~chk)
         /\ cfg' = IF asked /\ chk THEN [cfg EXCEPT !.non_ssl_noprompt = TRUE]
                                   ELSE cfg
         /\ visible' = IF asked /\ ~CloseProceeds(ok) THEN visible ELSE FALSE
         /\ last' = [op |-> "closeEvent", upd |-> FALSE, asked |-> asked,
                     ok |-> (asked /\ ok),
                     noprompt0 |-> cfg.non_ssl_noprompt]
    /\ UNCHANGED <<net, nl, tdVars, otherVars>>

\* The dialog is shown again.
UI_show ==
    /\ ~visible
    /\ visible' = TRUE
    /\ last' = Did("other", FALSE)
    /\ UNCHANGED <<net, cfg, nl, tdVars, otherVars>>

----------------------------------------------------------------------------
(* Refresh rate limiting: NetworkDialog.on_update, the job list *)

\* Last tick of the clock the model follows.
MaxTime == 8

\* @rate_limited(0.333) on NetworkDialog.on_update, in ticks.
OnUpdateRate == 1

\* @rate_limited(2.0, classlevel=True, ts_after=True) on
\* SlpSearchJobListWidget.update, in ticks.
JobListRate == 6

\* A limiter without a pending timer; a time before every call.
NoTimer == -1
Never == 0 - JobListRate

\* rate_limited: a call to the decorated method at time t. With a timer
\* pending the call is collapsed into it; a call that comes rate or more after
\* the last run runs at once; any other call starts a timer for the rest of
\* the interval.
rate_limited_invoke(R, rate, t) ==
    IF R.timer # NoTimer
    THEN [rl |-> R, run |-> FALSE]
    ELSE IF t - R.last_ts >= rate
         THEN [rl |-> [R EXCEPT !.last_ts = t], run |-> TRUE]
         ELSE [rl |-> [R EXCEPT !.timer = R.last_ts + rate], run |-> FALSE]

\* rate_limited: the limiter after its timer has run the method at time t.
rate_limited_doIt(R, t) == [last_ts |-> t, timer |-> NoTimer]

\* The redraws record after a run of the refresh named by f at time t.
Redrawn(H, f, t) == [H EXCEPT ![f] = <<@[2], t>>]

\* The clock starts long after the dialog was constructed (and update() ran
\* in the constructor).
InitRL ==
    /\ now = 0
    /\ on_update_rl = [last_ts |-> Never, timer |-> NoTimer]
    /\ job_update_rl = [last_ts |-> Never, timer |-> NoTimer]
    /\ redraws = [dialog |-> <<Never, Never>>, jobs |-> <<Never, Never>>,
                  stale |-> FALSE]

\* NetworkChoiceLayout.update() run at time now; it ends with
\* slp_search_job_list_widget.update(), which is rate-limited.
RunLayoutUpdate ==
    /\ nl' = update(nl, net, cfg)
    /\ last' = Did("other", TRUE)
    /\ LET r == rate_limited_invoke(job_update_rl, JobListRate, now)
           H == [Redrawn(redraws, "dialog", now) EXCEPT !.stale = FALSE] IN
         /\ job_update_rl' = r.rl
         /\ redraws' = IF r.run THEN Redrawn(H, "jobs", now) ELSE H

\* Time passes; a timer that is due fires first.
RL_tick ==
    /\ now < MaxTime
    /\ on_update_rl.timer = NoTimer \/ on_update_rl.timer > now
    /\ job_update_rl.timer = NoTimer \/ job_update_rl.timer > now
    /\ now' = now + 1
    /\ UNCHANGED <<on_update_rl, job_update_rl, redraws, tdVars, uiVars, rlRest>>

\* A change notification (on_network, or the refresh timer): the signal
\* network_updated_signal calls the rate-limited on_update.
RL_network_updated_signal ==
    /\ visible
    /\ LET r == rate_limited_invoke(on_update_rl, OnUpdateRate, now) IN
         /\ on_update_rl' = r.rl
         /\ IF r.run
            THEN RunLayoutUpdate
            ELSE /\ redraws' = [redraws EXCEPT !.stale = TRUE]
                 /\ UNCHANGED <<nl, last, job_update_rl>>
    /\ UNCHANGED <<now, net, cfg, visible, tdVars, rlRest>>

\* The timer of on_update's limiter fires: on_update runs.
RL_on_update_timer ==
    /\ on_update_rl.timer # NoTimer
    /\ on_update_rl.timer <= now
    /\ on_update_rl' = rate_limited_doIt(on_update_rl, now)
    /\ RunLayoutUpdate
    /\ UNCHANGED <<now, net, cfg, visible, tdVars, rlRest>>

\* The timer of the job list's limiter fires: the job list is redrawn.
RL_job_update_timer ==
    /\ job_update_rl.timer # NoTimer
    /\ job_update_rl.timer <= now
    /\ job_update_rl' = rate_limited_doIt(job_update_rl, now)
    /\ redraws' = Redrawn(redraws, "jobs", now)
    /\ UNCHANGED <<now, on_update_rl, tdVars, uiVars, rlRest>>

\* The network's server list changed: on_server_list_updated calls update().
RL_on_server_list_updated ==
    /\ visible
    /\ RunLayoutUpdate
    /\ UNCHANGED <<now, on_update_rl, net, cfg, visible, tdVars, rlRest>>

----------------------------------------------------------------------------
(* The list renderers *)

\* Most entries of a snapshot the model draws.
MaxRows == 2

\* Keys of servers, endpoints and jobs; base heights of chains (as keys).
Keys == {"a", "b"}
BaseHeights == {"h0", "h1"}

\* currentItem() is None; the key read then.
NoKey == "none"

\* The data a row carries besides its key, as a pair of strings.
NoTag == <<"", "">>

Range(q) == {q[i] : i \in 1..Len(q)}
Reverse(q) == [i \in 1..Len(q) |-> q[Len(q) + 1 - i]]

\* Sequences of at most MaxRows elements of S, no element twice.
SeqsNoDup(S) ==
    {q \in UNION {[1..n -> S] : n \in 0..MaxRows} :
        \A i, j \in 1..Len(q) : q[i] = q[j] => i = j}

\* sel_item.data(col, Qt.UserRole) if sel_item else None
SelKey(rows, sel) == IF sel = 0 THEN NoKey ELSE rows[sel].key

\* The row setCurrentItem was last called on in a loop that calls it (or
\* assigns restore_sel) on every row whose key is k: its index, 0 if none.
RestoreSel(rows, k) ==
    LET m == {i \in 1..Len(rows) : rows[i].key = k}
    IN IF m = {} THEN 0 ELSE CHOOSE i \in m : \A j \in m : j <= i

\* One row per key of a sequence of keys.
KeyRows(q) == [i \in 1..Len(q) |-> [key |-> q[i], tag |-> NoTag]]

\* NodesListWidget.update: the rows of chains i..Len(chains); a chain gets a
\* row of its own (keyed by its base height) when there are several chains.
RECURSIVE NodesRows(_, _)
NodesRows(chains, i) ==
    IF i > Len(chains) THEN <<>>
    ELSE (IF Len(chains) > 1
          THEN <<[key |-> chains[i].base, tag |-> <<"chain", "">>]>>
          ELSE <<>>)
         \o [j \in 1..Len(chains[i].servers) |->
                [key |-> chains[i].servers[j], tag |-> <<"server", "">>]]
         \o NodesRows(chains, i + 1)

\* NodesListWidget.update(network, servers): restore_sel is set on server
\* rows only.
NodesListWidget_update(rows, sel, chains) ==
    LET new == NodesRows(chains, 1)
        k == SelKey(rows, sel)
        m == {i \in 1..Len(new) : new[i].tag[1] = "server" /\ new[i].key = k}
    IN [rows |-> new,
        sel |-> IF m = {} THEN 0 ELSE CHOOSE i \in m : \A j \in m : j <= i]

\* ServerListWidget.update, on the servers that get a row.
ServerListWidget_update(rows, sel, servers) ==
    [rows |-> KeyRows(servers),
     sel |-> RestoreSel(KeyRows(servers), SelKey(rows, sel))]

\* SlpGsServeListWidget.update
SlpGsServeListWidget_update(rows, sel, slp_gs_list) ==
    [rows |-> KeyRows(slp_gs_list),
     sel |-> RestoreSel(KeyRows(slp_gs_list), SelKey(rows, sel))]

\* SlpSLPDBServeListWidget.update: clear() and rebuild, nothing else.
SlpSLPDBServeListWidget_update(rows, sel, slp_slpdb_list) ==
    [rows |-> KeyRows(slp_slpdb_list), sel |-> 0]

\* PostOfficeServeListWidget.update
PostOfficeServeListWidget_update(rows, sel, post_office_list) ==
    [rows |-> KeyRows(post_office_list),
     sel |-> RestoreSel(KeyRows(post_office_list), SelKey(rows, sel))]

\* SlpSearchJobListWidget.update: status of a job
JobStatus(job, gs_enabled) ==
    IF ~gs_enabled THEN "NA"
    ELSE IF job.search_success THEN "Downloaded"
    ELSE IF job.job_complete THEN "Exited"
    ELSE IF job.waiting_to_cancel THEN "Stopping..."
    ELSE IF job.search_started THEN "Downloading..."
    ELSE "In Queue"

\* SlpSearchJobListWidget.update: exit_msg, the text appended to the status
JobExitMsg(job, status) ==
    IF job.exit_msg # "" /\ status # "Downloaded" THEN " (msg)" ELSE ""

\* SlpSearchJobListWidget.update: the item of a job; data(0) is its key,
\* data(4) is status + exit_msg, kept as the pair of the two strings.
JobItem(job, gs_enabled) ==
    LET status == JobStatus(job, gs_enabled)
    IN [key |-> job.id, tag |-> <<status, JobExitMsg(job, status)>>]

IsDownloading(x) == x.tag[1] = "Downloading..."
IsDownloaded(x) == x.tag[1] = "Downloaded"
IsOtherItem(x) == ~IsDownloading(x) /\ ~IsDownloaded(x)

\* SlpSearchJobListWidget.update(): working_item holds the last job found
\* downloading; it goes on top, then the completed ones latest first, then
\* the others.
SlpSearchJobListWidget_update(rows, sel, snap) ==
    LET items == [i \in 1..Len(snap.jobs) |-> JobItem(snap.jobs[i], snap.gs_enabled)]
        w == {i \in 1..Len(items) : IsDownloading(items[i])}
        working == IF w = {} THEN <<>>
                   ELSE <<items[CHOOSE i \in w : \A j \in w : j <= i]>>
        new == working \o Reverse(SelectSeq(items, IsDownloaded))
                 \o SelectSeq(items, IsOtherItem)
    IN [rows |-> new, sel |-> RestoreSel(new, SelKey(rows, sel))]

\* Jobs as slp_gs_mgr may hold them for a root txid: in the queue,
\* downloading, exited with a message, downloaded.
JobSamples(id) ==
    { [id |-> id, search_success |-> FALSE, job_complete |-> FALSE,
       waiting_to_cancel |-> FALSE, search_started |-> st, exit_msg |-> ""] :
        st \in BOOLEAN }
    \cup
    { [id |-> id, search_success |-> su, job_complete |-> TRUE,
       waiting_to_cancel |-> FALSE, search_started |-> TRUE,
       exit_msg |-> IF su THEN "" ELSE "msg"] :
        su \in BOOLEAN }

\* The renderers and the snapshots drawn for each.
Kinds == {"nodes", "servers", "jobs", "gs", "slpdb", "postage"}

Snapshots(kind) ==
    CASE kind = "nodes" ->
           { c \in UNION {[1..n -> [base : BaseHeights, servers : SeqsNoDup(Keys)]] :
                            n \in 1..MaxRows} :
               \A i, j \in 1..Len(c) :
                   i # j => /\ c[i].base # c[j].base
                            /\ Range(c[i].servers) \cap Range(c[j].servers) = {} }
      [] kind = "jobs" ->
           { [jobs |-> q, gs_enabled |-> g] :
               q \in { j \in UNION {[1..n -> UNION {JobSamples(id) : id \in Keys}] :
                                       n \in 0..MaxRows} :
                         \A i, k \in 1..Len(j) : j[i].id = j[k].id => i = k },
               g \in BOOLEAN }
      [] OTHER -> SeqsNoDup(Keys)

\* The keys a snapshot holds.
SnapshotKeys(kind, snap) ==
    CASE kind = "nodes" ->
           UNION {Range(snap[i].servers) : i \in 1..Len(snap)}
             \cup (IF Len(snap) > 1 THEN {snap[i].base : i \in 1..Len(snap)}
                                    ELSE {})
      [] kind = "jobs" -> {snap.jobs[i].id : i \in 1..Len(snap.jobs)}
      [] OTHER -> Range(snap)

\* update() of the renderer kind.
ListUpdate(kind, rows, sel, snap) ==
    CASE kind = "nodes" -> NodesListWidget_update(rows, sel, snap)
      [] kind = "servers" -> ServerListWidget_update(rows, sel, snap)
      [] kind = "jobs" -> SlpSearchJobListWidget_update(rows, sel, snap)
      [] kind = "gs" -> SlpGsServeListWidget_update(rows, sel, snap)
      [] kind = "slpdb" -> SlpSLPDBServeListWidget_update(rows, sel, snap)
      [] kind = "postage" -> PostOfficeServeListWidget_update(rows, sel, snap)

\* A widget of some kind after its first update() on some snapshot.
InitLW ==
    /\ lw_kind \in Kinds
    /\ lw_snap \in Snapshots(lw_kind)
    /\ lw_rows = ListUpdate(lw_kind, <<>>, 0, lw_snap).rows
    /\ lw_sel = 0
    /\ lw_last = [op |-> "update", key0 |-> NoKey]

\* No list widget is followed.
IdleLW ==
    /\ lw_kind = "servers"
    /\ lw_snap = <<>>
    /\ lw_rows = <<>>
    /\ lw_sel = 0
    /\ lw_last = [op |-> "update", key0 |-> NoKey]

\* The user clicks the row i.
LW_select(i) ==
    /\ i \in 1..Len(lw_rows)
    /\ lw_sel' = i
    /\ lw_last' = [op |-> "select", key0 |-> SelKey(lw_rows, lw_sel)]
    /\ UNCHANGED <<lw_kind, lw_snap, lw_rows, tdVars, uiVars, lwRest>>

\* The collaborator's data changes.
LW_change(snap) ==
    /\ snap # lw_snap
    /\ lw_snap' = snap
    /\ lw_last' = [op |-> "change", key0 |-> SelKey(lw_rows, lw_sel)]
    /\ UNCHANGED <<lw_kind, lw_rows, lw_sel, tdVars, uiVars, lwRest>>

\* update() of the widget.
LW_update ==
    /\ LET r == ListUpdate(lw_kind, lw_rows, lw_sel, lw_snap) IN
         /\ lw_rows' = r.rows
         /\ lw_sel' = r.sel
    /\ lw_last' = [op |-> "update", key0 |-> SelKey(lw_rows, lw_sel)]
    /\ UNCHANGED <<lw_kind, lw_snap, tdVars, uiVars, lwRest>>

----------------------------------------------------------------------------
(* TorDetector.is_tor_port *)

\* Longest reply (in pieces of text) the model draws.
MaxReply == 2

\* b"Tor is not an HTTP Proxy", and some other piece of a reply.
TorReply == "Tor is not an HTTP Proxy"
OtherText == "HTTP/1.0 400"

\* Exceptions that are socket.error (OSError), and one that is not: connect()
\* raises OverflowError for a port outside 0..65535.
SocketErrors == {"ConnectionRefusedError", "socket.timeout", "socket.error"}
OverflowError == "OverflowError"
MaxPort == 65535

\* Ports is_tor_port is called with.
ProbePorts == {9050, 9150, 9999, MaxPort + 1}

\* What recv(1024) may return.
Replies == UNION {[1..n -> {TorReply, OtherText}] : n \in 0..MaxReply}

\* What one call meets: the outcome of socket(), connect(), send() ("ok" or
\* the exception raised) and of recv() (the bytes, or the exception).
ProbeEnvs ==
    { e \in [port : ProbePorts,
             socket : {"ok", "socket.error"},
             connect : {"ok"} \cup SocketErrors \cup {OverflowError},
             send : {"ok", "socket.error"},
             recv_exc : {"ok", "socket.timeout"},
             recv : Replies] :
        (e.connect = OverflowError) <=> (e.port > MaxPort) }

\* b"Tor is not an HTTP Proxy" in reply
ContainsTorReply(reply) == \E i \in 1..Len(reply) : reply[i] = TorReply

\* The first exception the try block raises, "ok" if it raises none.
FirstException(e) ==
    IF e.socket # "ok" THEN e.socket
    ELSE IF e.connect # "ok" THEN e.connect
    ELSE IF e.send # "ok" THEN e.send
    ELSE e.recv_exc

NotCalled == [ret |-> FALSE, raised |-> "not called"]
Returned(b) == [ret |-> b, raised |-> "no"]
Raised(x) == [ret |-> FALSE, raised |-> x]

\* Seeded fault: is_tor_port without the try/except.
is_tor_port_noexcept(e) ==
    LET x == FirstException(e) IN
    IF x = "ok" THEN Returned(ContainsTorReply(e.recv)) ELSE Raised(x)

\* TorDetector.is_tor_port(port)
is_tor_port(e) ==
    LET x == FirstException(e) IN
    IF x = "ok" THEN Returned(ContainsTorReply(e.recv))
    ELSE IF x \in SocketErrors THEN Returned(FALSE)
    ELSE Raised(x)

InitPR ==
    /\ pr_in \in ProbeEnvs
    /\ pr_out = NotCalled

\* No call of is_tor_port is followed.
IdlePR ==
    /\ pr_in = [port |-> 9050, socket |-> "ok", connect |-> "ok",
                send |-> "ok", recv_exc |-> "ok", recv |-> <<>>]
    /\ pr_out = NotCalled

\* is_tor_port(pr_in.port) is called.
PR_is_tor_port ==
    /\ pr_out = NotCalled
    /\ pr_out' = is_tor_port(pr_in)
    /\ UNCHANGED <<pr_in, tdVars, uiVars, prRest>>

\* Another call, in another environment.
PR_again(e) ==
    /\ pr_out # NotCalled
    /\ pr_in' = e
    /\ pr_out' = NotCalled
    /\ UNCHANGED <<tdVars, uiVars, prRest>>

----------------------------------------------------------------------------
(* The context menu of the graph-search job list *)

NoMenu == [item |-> [key |-> NoKey, tag |-> <<"", "">>], actions |-> {}]

\* The actions create_menu adds for every item.
ItemActions == {"Copy Txid", "Copy Reversed Txid", "Copy Status", "Refresh List"}

\* item.data(4, Qt.UserRole) in L, for a list L of status names: data(4) is
\* the string status + exit_msg, which equals a status name only when the
\* appended text is empty.
Data4In(x, L) == x.tag[2] = "" /\ x.tag[1] \in L

\* create_menu: the actions of the menu shown for the current item x.
create_menu(x) ==
    ItemActions \cup
        (IF Data4In(x, {"Exited"}) THEN {"Restart Search"}
         ELSE IF ~Data4In(x, {"Exited", "Downloaded"}) THEN {"Cancel"}
         ELSE {})

\* Every job slp_gs_mgr can hold for a root txid, with and without an exit
\* message.
AllJobs(id) ==
    [id : {id}, search_success : BOOLEAN, job_complete : BOOLEAN,
     waiting_to_cancel : BOOLEAN, search_started : BOOLEAN,
     exit_msg : {"", "msg"}]

JobSnaps ==
    [gs_enabled : BOOLEAN, jobs : {<<>>} \cup {<<j>> : j \in AllJobs("a")}]

InitJM ==
    /\ jm_snap = [gs_enabled |-> FALSE, jobs |-> <<>>]
    /\ jm_rows = <<>>
    /\ jm_sel = 0
    /\ jm_menu = NoMenu

\* slp_gs_mgr: a job is added, advances or ends, or graph search is switched.
JM_jobs_change(snap) ==
    /\ snap # jm_snap
    /\ jm_snap' = snap
    /\ UNCHANGED <<jm_rows, jm_sel, jm_menu, tdVars, uiVars, jmRest>>

\* SlpSearchJobListWidget.update()
JM_update ==
    /\ LET r == SlpSearchJobListWidget_update(jm_rows, jm_sel, jm_snap) IN
         /\ jm_rows' = r.rows
         /\ jm_sel' = r.sel
    /\ UNCHANGED <<jm_snap, jm_menu, tdVars, uiVars, jmRest>>

\* The user makes item i the current item.
JM_select(i) ==
    /\ i \in 1..Len(jm_rows)
    /\ i # jm_sel
    /\ jm_sel' = i
    /\ UNCHANGED <<jm_snap, jm_rows, jm_menu, tdVars, uiVars, jmRest>>

\* customContextMenuRequested: create_menu(position); without a current item
\* no menu is shown.
JM_create_menu ==
    /\ jm_sel # 0
    /\ jm_menu' = [item |-> jm_rows[jm_sel], actions |-> create_menu(jm_rows[jm_sel])]
    /\ UNCHANGED <<jm_snap, jm_rows, jm_sel, tdVars, uiVars, jmRest>>

----------------------------------------------------------------------------

(* Adding and removing SLPDB endpoints *)

\* Length of the texts typed into slp_slpdb_server_host.
MaxText == 5

\* Number of endpoints slp_gs_mgr.slpdb_host holds in the runs.
MaxHosts == 2

\* The characters of the texts: a letter, and the characters urlparse
\* looks for.
Chars == {"a", ":", "/", "["}
SchemeChars == {"a"}

\* t[a..], the empty text when a is past the end
From(t, a) == IF a > Len(t) THEN <<>> ELSE SubSeq(t, a, Len(t))

\* url.find(c): the first position of c in t, 0 if there is none
Find(t, c) ==
    LET m == {i \in 1..Len(t) : t[i] = c}
    IN IF m = {} THEN 0 ELSE CHOOSE i \in m : \A j \in m : i <= j

\* urlsplit: the scheme is what precedes the first ':', if that is not empty
\* and made of scheme characters; it is removed from the url with the ':'.
UrlScheme(t) ==
    LET i == Find(t, ":")
    IN IF i > 1 /\ \A k \in 1..(i - 1) : t[k] \in SchemeChars
       THEN SubSeq(t, 1, i - 1) ELSE <<>>

AfterScheme(t) == IF UrlScheme(t) = <<>> THEN t ELSE From(t, Len(UrlScheme(t)) + 2)

\* urlsplit: if url[:2] == '//', the netloc is what follows up to the next
\* '/' (the texts hold no '?' or '#').
UrlNetloc(t) ==
    LET u == AfterScheme(t) IN
    IF Len(u) >= 2 /\ u[1] = "/" /\ u[2] = "/"
    THEN LET r == From(u, 3)
             d == Find(r, "/")
         IN IF d = 0 THEN r ELSE SubSeq(r, 1, d - 1)
    ELSE <<>>

\* urlsplit raises ValueError("Invalid IPv6 URL") for a netloc with '['
\* and no ']'.
UrlValueError(t) == "[" \in Range(UrlNetloc(t))

\* Seeded fault: is_url that looks at the scheme only.
is_url_scheme_only(url) == UrlScheme(url) # <<>>

\* is_url: all([result.scheme, result.netloc]); False on ValueError
is_url(url) ==
    IF UrlValueError(url) THEN FALSE
    ELSE UrlScheme(url) # <<>> /\ UrlNetloc(url) # <<>>

\* slp_gs_mgr.update_slpdb_host(server, add, remove): the endpoint list
\* with server added (once) or removed.
update_slpdb_host(hosts, server, add, remove) ==
    IF add THEN (IF server \in Range(hosts) THEN hosts ELSE Append(hosts, server))
    ELSE IF remove THEN SelectSeq(hosts, LAMBDA h : h # server)
    ELSE hosts

\* update_slp_slpdb_server(server, add, remove): nothing without a server;
\* otherwise the manager's list, the slider's maximum and the list widget.
update_slp_slpdb_server(S, server, add, remove) ==
    IF server = <<>> THEN S
    ELSE LET hosts == update_slpdb_host(S.hosts, server, add, remove)
         IN [hosts |-> hosts, max |-> Len(hosts),
             rows  |-> SlpSLPDBServeListWidget_update(S.rows, 0, hosts).rows]

NoBox == "none"

\* No call of slpdb_endpoint_msg_box since the text was last edited.
IdleSD == [text |-> <<>>, box |-> NoBox, answer |-> NoBox,
           hosts0 |-> <<>>, max0 |-> 0, hosts1 |-> <<>>, max1 |-> 0]

InitSD ==
    /\ sd_text = <<>>
    /\ sd_hosts = <<>>
    /\ sd_max = 0
    /\ sd_rows = <<>>
    /\ sd_last = IdleSD

\* The user edits slp_slpdb_server_host: types a character at the end, or
\* deletes the last one.
SD_type(c) ==
    /\ Len(sd_text) < MaxText
    /\ sd_text' = Append(sd_text, c)
    /\ sd_last' = IdleSD
    /\ UNCHANGED <<sd_hosts, sd_max, sd_rows, tdVars, uiVars, sdRest>>

SD_backspace ==
    /\ sd_text # <<>>
    /\ sd_text' = SubSeq(sd_text, 1, Len(sd_text) - 1)
    /\ sd_last' = IdleSD
    /\ UNCHANGED <<sd_hosts, sd_max, sd_rows, tdVars, uiVars, sdRest>>

\* add_slpdb_server_button.clicked: slpdb_endpoint_msg_box(); answer is the
\* button the user closes the message box with.
SD_slpdb_endpoint_msg_box(answer) ==
    /\ Len(sd_hosts) < MaxHosts
    /\ LET S == [hosts |-> sd_hosts, max |-> sd_max, rows |-> sd_rows]
           question == is_url(sd_text)
           T == IF question /\ answer = "Ok"
                THEN update_slp_slpdb_server(S, sd_text, TRUE, FALSE)
                ELSE S
       IN /\ answer \in (IF question THEN {"Ok", "Cancel"} ELSE {"Ok"})
          /\ sd_hosts' = T.hosts
          /\ sd_max' = T.max
          /\ sd_rows' = T.rows
          /\ sd_last' = [text |-> sd_text,
                         box |-> IF question THEN "Add SLPDB Endpoint" ELSE "Error",
                         answer |-> answer, hosts0 |-> sd_hosts, max0 |-> sd_max,
                         hosts1 |-> T.hosts, max1 |-> T.max]
    /\ UNCHANGED <<sd_text, tdVars, uiVars, sdRest>>

\* Context menu of the endpoint list, 'Remove':
\* update_slp_slpdb_server(server, remove=True)
SD_remove(i) ==
    /\ i \in 1..Len(sd_rows)
    /\ LET S == [hosts |-> sd_hosts, max |-> sd_max, rows |-> sd_rows]
           T == update_slp_slpdb_server(S, sd_rows[i].key, FALSE, TRUE)
       IN /\ sd_hosts' = T.hosts
          /\ sd_max' = T.max
          /\ sd_rows' = T.rows
    /\ UNCHANGED <<sd_text, sd_last, tdVars, uiVars, sdRest>>

----------------------------------------------------------------------------

(* Showing and hiding the dialog and the Proxy tab *)

\* The tabs, in the order of addTab.
Tabs == {"blockchain", "server", "proxy", "validation", "postage"}

\* The dialog as the base state has it: shown (showEvent has started both
\* timers) on its first tab.
InitSH ==
    /\ sh_tab = "blockchain"
    /\ sh_minimized = FALSE
    /\ timers = [refresh |-> TRUE, workaround |-> TRUE]

\* Seeded fault: hideEvent that leaves the timers running.
NetworkDialog_hideEvent_nostop(T, isVisible) == T

\* NetworkDialog.hideEvent: if not self.isVisible(): both timers stop()
NetworkDialog_hideEvent(T, isVisible) ==
    IF ~isVisible THEN [refresh |-> FALSE, workaround |-> FALSE] ELSE T

\* NetworkDialog.showEvent (the event is accepted): workaround_timer.start(500);
\* refresh_timer.start()
NetworkDialog_showEvent(T) == [refresh |-> TRUE, workaround |-> TRUE]

\* ProxyTab.showEvent, if the Proxy tab is the one that appears: td.start()
ProxyTab_showEvent(tab) ==
    IF tab = "proxy" THEN TorDetector_start ELSE UNCHANGED tdVars

\* ProxyTab.hideEvent, if the Proxy tab is the one that disappears: td.stop()
ProxyTab_hideEvent(tab) ==
    IF tab = "proxy" THEN TorDetector_stop ELSE UNCHANGED tdVars

\* The dialog is hidden (hide(), or a close that was accepted): Qt clears
\* the visible flag, then delivers hideEvent to the dialog and to the page
\* of the current tab.
SH_hide ==
    /\ ui_pc = "idle"
    /\ visible
    /\ visible' = FALSE
    /\ sh_minimized' = FALSE
    /\ timers' = NetworkDialog_hideEvent(timers, visible')
    /\ ProxyTab_hideEvent(sh_tab)
    /\ UNCHANGED <<sh_tab, net, cfg, nl, last, shRest>>

\* The dialog is shown: showEvent to the dialog and to the page of the
\* current tab.
SH_show ==
    /\ ui_pc = "idle"
    /\ ~visible
    /\ visible' = TRUE
    /\ timers' = NetworkDialog_showEvent(timers)
    /\ ProxyTab_showEvent(sh_tab)
    /\ UNCHANGED <<sh_tab, sh_minimized, net, cfg, nl, last, shRest>>

\* The user minimizes the window: spontaneous hide events, with isVisible()
\* still true.
SH_minimize ==
    /\ ui_pc = "idle"
    /\ visible /\ ~sh_minimized
    /\ sh_minimized' = TRUE
    /\ timers' = NetworkDialog_hideEvent(timers, visible)
    /\ ProxyTab_hideEvent(sh_tab)
    /\ UNCHANGED <<sh_tab, uiVars, shRest>>

\* The user restores the minimized window: spontaneous show events.
SH_restore ==
    /\ ui_pc = "idle"
    /\ visible /\ sh_minimized
    /\ sh_minimized' = FALSE
    /\ timers' = NetworkDialog_showEvent(timers)
    /\ ProxyTab_showEvent(sh_tab)
    /\ UNCHANGED <<sh_tab, uiVars, shRest>>

\* The current tab changes to t (the user clicks it, or jumpto): with the
\* dialog visible the page that was current gets hideEvent and the new one
\* showEvent; at most one of the two is the Proxy tab.
SH_set_tab(t) ==
    /\ ui_pc = "idle"
    /\ t # sh_tab
    /\ sh_tab' = t
    /\ IF ~visible THEN UNCHANGED tdVars
       ELSE IF sh_tab = "proxy" THEN ProxyTab_hideEvent(sh_tab)
       ELSE ProxyTab_showEvent(t)
    /\ UNCHANGED <<sh_minimized, timers, uiVars, shRest>>

\* workaround_timer (single shot) fires: _workaround_update
SH_workaround_update ==
    /\ ui_pc = "idle"
    /\ timers.workaround
    /\ timers' = [timers EXCEPT !.workaround = FALSE]
    /\ UNCHANGED <<sh_tab, sh_minimized, tdVars, uiVars, shRest>>

----------------------------------------------------------------------------

(* Threads: who runs the handlers of the dialog *)

\* Calls waiting in the UI thread's event loop in the runs.
MaxPosted == 2

\* The thread of the Qt event loop, in which the dialog and its layout live.
UiThread == "ui"

\* The handlers of the dialog that producers on other threads lead to.
UiHandlers ==
    {"suggest_proxy", "on_update", "on_tor_port_changed",
     "on_server_list_updated", "on_tor_status_changed"}

\* The body of handler h runs on thread t, for a call produced on thread from.
Call(S, h, t, from) == [S EXCEPT !.execs = @ \cup {<<h, t, from>>}]

\* The call of h is posted to the UI thread's event loop.
Post(S, h, from) == [S EXCEPT !.queue = Append(@, <<h, from>>)]

\* signal.emit() on thread t, for a signal connected (with the default
\* connection type) to a slot of an object that lives in the UI thread: a
\* direct call on the UI thread, a queued one from any other.
Emit(S, h, t) == IF t = UiThread THEN Call(S, h, t, t) ELSE Post(S, h, t)

\* @in_main_thread: the decorated method runs at once when called on the
\* main thread and is posted to it when called on another.
in_main_thread(S, h, t) == IF t = UiThread THEN Call(S, h, t, t) ELSE Post(S, h, t)

\* Seeded fault: on_network calls on_update itself.
on_network_direct(S, t) == Call(S, "on_update", t, t)

\* NetworkDialog.on_network: self.network_updated_signal.emit()
on_network(S, t) == Emit(S, "on_update", t)

InitCT ==
    /\ ct_queue = <<>>
    /\ ct_execs = {}

CT == [queue |-> ct_queue, execs |-> ct_execs]

\* The state after a producer's step: what it posted and what ran.
CT_becomes(S) ==
    /\ Len(S.queue) <= MaxPosted
    /\ ct_queue' = S.queue
    /\ ct_execs' = S.execs
    /\ UNCHANGED <<tdVars, uiVars, ctRest>>

\* The network thread calls the registered callback on_network.
CT_on_network == CT_becomes(on_network(CT, "network"))

\* refresh_timer.timeout (UI thread) -> network_updated_signal.emit
CT_refresh_timeout == CT_becomes(Emit(CT, "on_update", UiThread))

\* run(): self.found_proxy.emit(...) on the worker thread; the signal is
\* connected to NetworkChoiceLayout.suggest_proxy.
CT_found_proxy == CT_becomes(Emit(CT, "suggest_proxy", "worker"))

\* The Tor controller's thread calls its active_port_changed callbacks: the
\* layout's on_tor_port_changed (decorated) and TorDetector's (plain, it
\* only tests isRunning() and puts on the queue).
CT_active_port_changed ==
    CT_becomes(Call(in_main_thread(CT, "on_tor_port_changed", "tor"),
                    "TorDetector.on_tor_port_changed", "tor", "tor"))

\* The network thread calls its server_list_updated callbacks.
CT_server_list_updated ==
    CT_becomes(in_main_thread(CT, "on_server_list_updated", "network"))

\* The Tor controller's thread calls its status_changed callbacks.
CT_tor_status_changed ==
    CT_becomes(in_main_thread(CT, "on_tor_status_changed", "tor"))

\* The UI thread's event loop runs the oldest posted call.
CT_ui_dispatch ==
    /\ ct_queue # <<>>
    /\ LET e == Head(ct_queue) IN
         CT_becomes(Call([CT EXCEPT !.queue = Tail(@)], e[1], UiThread, e[2]))

----------------------------------------------------------------------------

----------------------------------------------------------------------------
(* The 'Banned Servers' dialog *)

\* No on_clear_blacklist call made yet.
IdleBL == [op |-> "none", bl0 |-> {}, ok |-> FALSE, upd |-> FALSE,
           ret |-> FALSE]

InitBL ==
    /\ bl_calls = <<>>
    /\ bl_last = IdleBL

\* list(self.network.blacklisted_servers): the set in some order.
ListsOf(S) ==
    {q \in [1..Cardinality(S) -> S] : \A i, j \in DOMAIN q : q[i] = q[j] => i = j}

\* Seeded fault: the loop saving on every unban.
ClearCalls_saveall(bl) ==
    [i \in 1..Len(bl) |-> [server |-> bl[i], bl |-> FALSE, save |-> TRUE]]

\* The loop of on_clear_blacklist over bl: one server_set_blacklisted(s, False,
\* save) per server, save only at the last index.
ClearCalls(bl) ==
    [i \in 1..Len(bl) |-> [server |-> bl[i], bl |-> FALSE,
                           save |-> (i = Len(bl))]]

\* The network after the calls cs, in order.
RECURSIVE ApplyCalls(_, _)
ApplyCalls(N, cs) ==
    IF cs = <<>> THEN N
    ELSE ApplyCalls(server_set_blacklisted(N, Head(cs).server, Head(cs).bl),
                    Tail(cs))

\* 'Clear ban list' in the dialog opened by on_view_blacklist (which returns
\* before building it when the ban list is empty): on_clear_blacklist(), the
\* user answering ok to the question.
UI_on_clear_blacklist(ok) ==
    /\ visible
    /\ net.blacklist # {}
    /\ \E bl \in ListsOf(net.blacklist) :
         IF ok
         THEN LET cs == ClearCalls(bl)
                  N == ApplyCalls(net, cs) IN
                /\ bl_calls' = cs
                /\ net' = N
                /\ nl' = update(nl, N, cfg)
                /\ last' = Did("other", TRUE)
                /\ bl_last' = [op |-> "on_clear_blacklist",
                               bl0 |-> net.blacklist, ok |-> TRUE,
                               upd |-> TRUE, ret |-> TRUE]
         ELSE /\ bl_calls' = <<>>
              /\ bl_last' = [op |-> "on_clear_blacklist",
                             bl0 |-> net.blacklist, ok |-> FALSE,
                             upd |-> FALSE, ret |-> FALSE]
              /\ UNCHANGED <<net, nl, last>>
    /\ UNCHANGED <<cfg, visible, tdVars, blRest>>

Init == InitTD /\ InitUI /\ InitRL /\ IdleLW /\ IdlePR /\ InitJM /\ InitSD /\ InitSH /\ InitCT /\ InitBL

Next ==
    \/ TD_start
    \/ TD_stop
    \/ TD_stop_return
    \/ \E p \in ActivePorts : TC_port_changed(p)
    \/ TD_kick_put
    \/ \E b \in BOOLEAN : TC_set_enabled(b)
    \/ TD_check
    \/ TD_insert
    \/ TD_probe
    \/ TD_emit_none
    \/ TD_get_item
    \/ TD_get_timeout
    \/ TD_msleep

Spec == Init /\ [][Next]_vars

\* The server and proxy tabs: the mutation requests and the refresh.
NextUI ==
    \/ UI_on_update
    \/ UI_change_protocol
    \/ UI_autoconnect_clicked
    \/ UI_set_whitelisted_only
    \/ \E h \in ServerHosts, f \in 0..(Banned + Preferred) :
          \/ UI_use_as_server([server |-> h, flagval |-> f])
          \/ UI_set_blacklisted([server |-> h, flagval |-> f])
          \/ UI_set_whitelisted([server |-> h, flagval |-> f])
    \/ UI_proxy_cb_clicked
    \/ UI_use_tor_proxy
    \/ \E found \in ProbeResults : UI_suggest_proxy(found)

SpecUI == Init /\ [][NextUI]_vars

\* The dialog shell: what closeEvent's test reads (server host, SSL and Tor
\* checkboxes), the refresh, closing and showing.
NextDialog ==
    \/ UI_on_update
    \/ \E h \in Hosts : UI_edit_host(h)
    \/ UI_host_editingFinished
    \/ UI_change_protocol
    \/ UI_autoconnect_clicked
    \/ UI_use_tor_proxy
    \/ \E found \in ProbeResults : UI_suggest_proxy(found)
    \/ \E ok \in BOOLEAN, chk \in BOOLEAN : UI_closeEvent(ok, chk)
    \/ UI_show

SpecDialog == Init /\ [][NextDialog]_vars

\* The validation tab, with the refresh and the dialog shell.
NextValidation ==
    \/ UI_on_update
    \/ UI_change_protocol
    \/ UI_use_tor_proxy
    \/ \E found \in ProbeResults : UI_suggest_proxy(found)
    \/ UI_use_slp_gs
    \/ \E answer_ok \in BOOLEAN : UI_slpdb_msg_box(answer_ok)
    \/ \E ok \in BOOLEAN, chk \in BOOLEAN : UI_closeEvent(ok, chk)
    \/ UI_show

SpecValidation == Init /\ [][NextValidation]_vars

\* The refreshes of the dialog in time.
NextRefresh ==
    \/ RL_tick
    \/ RL_network_updated_signal
    \/ RL_on_update_timer
    \/ RL_job_update_timer
    \/ RL_on_server_list_updated

SpecRefresh == Init /\ [][NextRefresh]_vars

\* A list widget: selecting, data changes, update().
NextLists ==
    \/ \E i \in 1..(2 * MaxRows) : LW_select(i)
    \/ \E snap \in Snapshots(lw_kind) : LW_change(snap)
    \/ LW_update

InitLists == InitTD /\ InitUI /\ InitRL /\ InitLW /\ IdlePR /\ InitJM /\ InitSD /\ InitSH /\ InitCT /\ InitBL

SpecLists == InitLists /\ [][NextLists]_vars

\* Calls of is_tor_port.
NextProbe ==
    \/ PR_is_tor_port
    \/ \E e \in ProbeEnvs : PR_again(e)

InitProbe == InitTD /\ InitUI /\ InitRL /\ IdleLW /\ InitPR /\ InitJM /\ InitSD /\ InitSH /\ InitCT /\ InitBL

SpecProbe == InitProbe /\ [][NextProbe]_vars

\* The job list and its context menu.
NextJobs ==
    \/ \E snap \in JobSnaps : JM_jobs_change(snap)
    \/ JM_update
    \/ \E i \in 1..MaxRows : JM_select(i)
    \/ JM_create_menu

SpecJobs == Init /\ [][NextJobs]_vars

\* The SLPDB endpoint field, its Add button and the list's Remove.
NextSlpdb ==
    \/ \E c \in Chars : SD_type(c)
    \/ SD_backspace
    \/ \E answer \in {"Ok", "Cancel"} : SD_slpdb_endpoint_msg_box(answer)
    \/ \E i \in 1..MaxHosts : SD_remove(i)

SpecSlpdb == Init /\ [][NextSlpdb]_vars

\* The window and its tabs, with the detector's worker and wait(). The Tor
\* controller is left alone here (its port stays 0), so the worker's passes
\* have no insert and no kick to sleep after.
NextShowHide ==
    \/ SH_hide
    \/ SH_show
    \/ SH_minimize
    \/ SH_restore
    \/ \E t \in Tabs : SH_set_tab(t)
    \/ SH_workaround_update
    \/ TD_check
    \/ TD_probe
    \/ TD_emit_none
    \/ TD_get_item
    \/ TD_get_timeout
    \/ TD_stop_return

SpecShowHide == Init /\ [][NextShowHide]_vars

\* Producers on the worker, network and Tor controller threads, and the UI
\* thread's event loop.
NextThreads ==
    \/ CT_on_network
    \/ CT_refresh_timeout
    \/ CT_found_proxy
    \/ CT_active_port_changed
    \/ CT_server_list_updated
    \/ CT_tor_status_changed
    \/ CT_ui_dispatch

SpecThreads == Init /\ [][NextThreads]_vars

\* The server list's ban and preferred actions and the 'Banned Servers'
\* dialog; the Tor checkbox brings the .onion rows into the list.
NextBanList ==
    \/ UI_on_update
    \/ UI_set_whitelisted_only
    \/ \E h \in ServerHosts, f \in 0..(Banned + Preferred) :
          \/ UI_set_blacklisted([server |-> h, flagval |-> f])
          \/ UI_set_whitelisted([server |-> h, flagval |-> f])
    \/ UI_use_tor_proxy
    \/ \E found \in ProbeResults : UI_suggest_proxy(found)
    \/ \E ok \in BOOLEAN : UI_on_clear_blacklist(ok)

SpecBanList == Init /\ [][NextBanList]_vars

\* The proxy tab alone, with the user editing the proxy fields.
NextProxy ==
    \/ UI_on_update
    \/ UI_proxy_cb_clicked
    \/ \E m \in {ProxyModes[i] : i \in 1..Len(ProxyModes)},
          h \in ProxyHosts, p \in ProxyPorts : UI_proxy_edited(m, h, p)
    \/ UI_use_tor_proxy
    \/ \E found \in ProbeResults : UI_suggest_proxy(found)

InitProxy ==
    InitTD /\ InitUIPersisted /\ InitRL /\ IdleLW /\ IdlePR /\ InitJM /\ InitSD
           /\ InitSH /\ InitCT /\ InitBL

SpecProxy == InitProxy /\ [][NextProxy]_vars

----------------------------------------------------------------------------
(* Properties of the Tor detector *)

\* The worker is past the construction of ports in the current pass.
PastCheck == pc \in {"loop", "get", "msleep", "finished"}

\* The current pass has ended (its result is out).
PassOver == pc \in {"get", "msleep", "finished"}

\* C1: in every state in which stop(), called while the worker was running,
\* has returned, run() has exited: the thread is not running and no thread
\* executes run().
C1_StopWaitsForWorker ==
    stopped => (~running /\ nthreads = 0 /\ pc = "finished")

\* C1 witness: stop() was called before the first pass had emitted its result
\* and has returned.
C1_Witness == stopped /\ stopEarly /\ ui_pc = "idle"

\* C2 (as claimed): start() never yields two workers, and while the worker is
\* running it changes nothing, the queue the worker waits on included.
C2_SecondStartIsNoop ==
    /\ [](nthreads <= 1)
    /\ [][(TD_start /\ running) =>
            UNCHANGED <<running, nthreads, pc, stopQ, workerQ, oldQ>>]_vars

\* C3 (as claimed): a kick put while the worker is blocked in get() ends that
\* get() (not the timeout), and after msleep(250) the worker starts a pass.
C3_KickEndsWait ==
    [][ /\ (kicked /\ pc = "get" /\ pc' # "get") =>
              (wake' = "kick" /\ pc' = "msleep")
        /\ (pc = "msleep" /\ pc' # "msleep") => pc' = "top" ]_vars

\* C4: every pass emits exactly one result, found or not found: nothing is
\* out while the pass runs, exactly one result is out when it has ended, and
\* none is added while the worker waits, sleeps or has finished.
C4_OneResultPerPass ==
    /\ pc \in {"idle", "insert", "loop"} => emitted = <<>>
    /\ pc = "top" => Len(emitted) <= 1
    /\ PassOver =>
         /\ Len(emitted) = 1
         /\ \/ emitted[1] = NoProxy
            \/ \E i \in 1..Len(ports) : emitted[1] = FoundProxy(ports[i])

\* C4 witness: a pass that ended with found on its third candidate.
C4_Witness ==
    /\ pc = "get"
    /\ Len(probed) = 3
    /\ emitted = <<FoundProxy(9150)>>

\* C5: the worker goes top -> (insert ->) loop -> get -> (msleep ->) top ...;
\* it finishes only from get() by taking the sentinel None off its queue; a
\* get() ended by the timeout or by a kick leads to another pass; a finished
\* worker probes again only if start() launches it anew.
C5_Lifecycle ==
    [][ /\ (pc # "finished" /\ pc' = "finished") =>
              (pc = "get" /\ WorkerQueue # <<>> /\ Head(WorkerQueue) = None)
        /\ (pc = "get" /\ pc' # "get" /\ wake' \in {"timeout", "kick"}) =>
              pc' \in {"top", "msleep"}
        /\ (pc = "msleep" /\ pc' # "msleep") => pc' = "top"
        /\ (pc = "top" /\ pc' # "top") => pc' \in {"insert", "loop"}
        /\ (pc = "insert" /\ pc' # "insert") => pc' = "loop"
        /\ (pc = "loop" /\ pc' # "loop") => pc' = "get"
        /\ (pc = "finished" /\ pc' # "finished") =>
              (ui_pc = "idle" /\ ~running /\ running' /\ pc' = "top") ]_vars

\* C5 witness: a pass is probing after a get() that a kick ended.
C5_Witness == pc = "loop" /\ wake = "kick" /\ probed # <<>>

\* C6: the candidates of a pass are the controller's active port (there
\* exactly when the test found the controller enabled with a non-zero port),
\* then 9050, then 9150; they are probed in that order; every probe before the
\* last answered no; a pass that ended reports the last probed port if it
\* answered as Tor (nothing after it was probed), and otherwise has probed
\* every candidate and reports not found.
C6_PriorityOrder ==
    PastCheck =>
      /\ (Len(ports) = 3) <=> (tested.enabled /\ tested.port # 0)
      /\ ports = (IF Len(ports) = 3 THEN <<tested.ins>> ELSE <<>>) \o <<9050, 9150>>
      /\ Len(probed) <= Len(ports)
      /\ \A i \in 1..Len(probed) : probed[i][1] = ports[i]
      /\ \A i \in 1..(Len(probed) - 1) : probed[i][2] = FALSE
      /\ PassOver =>
           /\ probed # <<>>
           /\ IF probed[Len(probed)][2]
              THEN emitted = <<FoundProxy(probed[Len(probed)][1])>>
              ELSE Len(probed) = Len(ports) /\ emitted = <<NoProxy>>

\* C6 witness: the active port 9999 did not answer, 9050 did, and 9150 was
\* not probed.
C6_Witness ==
    /\ pc = "get"
    /\ ports = <<9999, 9050, 9150>>
    /\ probed = <<<<9999, FALSE>>, <<9050, TRUE>>>>
    /\ emitted = <<FoundProxy(9050)>>

----------------------------------------------------------------------------
(* Properties of the dialog *)

\* C7 (as claimed): the two validation checkboxes are never both checked, and
\* graph search and SLPDB validation are never both switched on in
\* slp_gs_mgr.
C7_MutuallyExclusive ==
    /\ ~(nl.slp_gs_enable_cb /\ nl.slp_slpdb_enable_cb)
    /\ ~(cfg.slp_validator_graphsearch_enabled
           /\ cfg.slp_validator_slpdb_validation_enabled)

\* C8 (as claimed): when a mutation request has been handled, the handler has
\* run update(), and the layout shows what a refresh from the network shows.
C8_MutationsRerender ==
    last.op \in {"use_as_server", "set_blacklisted", "set_whitelisted",
                 "set_whitelisted_only", "set_proxy", "use_tor_proxy"} =>
        (last.upd /\ nl = update(nl, net, cfg))

\* C9: when closeEvent has been handled with the SSL checkbox unchecked, the
\* Tor checkbox unchecked, a server host that is no .onion host (compared in
\* lower case, as closeEvent does) and non_ssl_noprompt unset, the prompt was
\* shown, and the dialog is closed exactly if the user confirmed it: declined,
\* the dialog is still open.
C9_CloseNeedsConfirmation ==
    ( /\ last.op = "closeEvent"
      /\ ~nl.ssl_cb
      /\ ~nl.tor_cb
      /\ ~IsOnion(nl.server_host)
      /\ ~last.noprompt0 )
    => (last.asked /\ (visible <=> ~last.ok))

\* C9 witness: the user typed a plain host, went to non-SSL, declined the
\* prompt on closing, and the dialog is still open.
C9_Witness ==
    /\ last.op = "closeEvent"
    /\ ~nl.ssl_cb /\ ~nl.tor_cb /\ ~IsOnion(nl.server_host)
    /\ ~last.noprompt0
    /\ last.asked /\ ~last.ok
    /\ visible

\* C10: right after a handler that ended with update(), the SSL checkbox is
\* disabled exactly if the network's protocol is SSL, the Tor checkbox is
\* unchecked and the network's host is no .onion host (compared in lower
\* case, as update() does).
C10_SslDisabledUnlessTor ==
    last.upd =>
        (nl.ssl_cb_disabled <=>
            (net.protocol = "s" /\ ~nl.tor_cb /\ ~IsOnion(net.host)))

\* C10 witness: a refresh with protocol SSL on a plain host while the Tor
\* checkbox is checked left the SSL checkbox enabled.
C10_Witness ==
    /\ last.upd
    /\ net.protocol = "s" /\ nl.ssl_cb
    /\ nl.tor_cb
    /\ ~IsOnion(net.host)
    /\ ~nl.ssl_cb_disabled

----------------------------------------------------------------------------
(* Properties of the refreshes *)

\* C11 (as claimed): two runs of the whole-dialog refresh are at least a third
\* of a second apart, two runs of the job list refresh at least two seconds,
\* and a notification that was not rendered at once has a timer pending that
\* will render it.
C11_RefreshRateLimited ==
    /\ redraws.dialog[1] # Never =>
          redraws.dialog[2] - redraws.dialog[1] >= OnUpdateRate
    /\ redraws.jobs[1] # Never =>
          redraws.jobs[2] - redraws.jobs[1] >= JobListRate
    /\ redraws.stale => on_update_rl.timer # NoTimer

----------------------------------------------------------------------------
(* Properties of the list renderers *)

\* C12 (as claimed): after update() of any renderer, if a row was selected
\* before and its key is in the snapshot, the selected row is the row of that
\* key; and a second update() on the same snapshot changes neither the rows
\* nor the selection.
C12_SelectionRestoredByKey ==
    lw_last.op = "update" =>
        /\ (lw_last.key0 # NoKey
              /\ lw_last.key0 \in SnapshotKeys(lw_kind, lw_snap))
           => (lw_sel # 0 /\ lw_rows[lw_sel].key = lw_last.key0)
        /\ ListUpdate(lw_kind, lw_rows, lw_sel, lw_snap)
             = [rows |-> lw_rows, sel |-> lw_sel]

----------------------------------------------------------------------------
(* Properties of is_tor_port *)

\* C13: a call of is_tor_port that meets nothing but socket errors returns
\* (it raises nothing), and it returns true exactly if socket(), connect(),
\* send() and recv() succeeded and the reply holds the Tor rejection string.
C13_IsTorPort ==
    (pr_out # NotCalled /\ pr_in.port <= MaxPort) =>
        /\ pr_out.raised = "no"
        /\ pr_out.ret <=>
              /\ pr_in.socket = "ok" /\ pr_in.connect = "ok"
              /\ pr_in.send = "ok" /\ pr_in.recv_exc = "ok"
              /\ ContainsTorReply(pr_in.recv)

\* C13 witness: a refused connection gave false; the reply that would have
\* come holds the Tor string.
C13_Witness ==
    /\ pr_out = Returned(FALSE)
    /\ pr_in.connect = "ConnectionRefusedError"
    /\ ContainsTorReply(pr_in.recv)

\* C14: stop() on a detector that is not running returns at once: it puts
\* nothing on the queue, does not enter wait(), and changes nothing of the
\* detector, so stop() twice in a row is stop() once.
C14_StopIdempotent ==
    [][(TD_stop /\ ~running) =>
          UNCHANGED <<running, nthreads, pc, ports, idx, stopQ, workerQ, oldQ,
                      tc_enabled, active_socks_port, kick_pc, ui_pc>>]_vars

\* C14: stop() has stopped the worker, and the stop() after it did nothing.
C14_Witness ==
    /\ hist.stopNoop
    /\ stopped
    /\ ~running /\ ui_pc = "idle"
    /\ None \notin Range(stopQ)

\* C18: a start() that launches a worker gives it a queue with nothing in it
\* that was put before that start(): while the thread runs, self.stopQ holds
\* no sentinel and no kick of an earlier run for get() to return.
C18_FreshQueueOnStart == running => hist.stale = 0

\* C18: start() has launched a worker and thrown away what the run before
\* it left on the queue; the worker has not yet taken anything.
C18_Witness ==
    /\ running /\ hist.dropped > 0
    /\ wake = "none"
    /\ ~stopped

\* The steps of the worker thread and the return of wait(): what the
\* scheduler runs whenever it can.
WorkerStep ==
    \/ TD_check \/ TD_insert \/ TD_probe \/ TD_emit_none
    \/ TD_get_item \/ TD_get_timeout \/ TD_msleep

\* The detector with a worker thread that is scheduled and a wait() that
\* returns once the thread has finished.
SpecLive == Spec /\ WF_vars(WorkerStep) /\ WF_vars(TD_stop_return)

\* C19: the worker takes the items in the order they were put, one per
\* get(): when the sentinel of stop() ends run(), every kick that was put
\* during the run before that stop() has been returned by a get() (and so
\* has caused its pass); none is left without one.
C19_KicksBeforeSentinelServed ==
    (pc = "finished" /\ wake = "stop") => hist.owed = 0

\* C19 (termination): a stop() that waits for the worker returns.
C19_StopReturns == (ui_pc = "wait") ~> stopped

\* C20: in the job list's context menu, whatever the job's exit message,
\* 'Restart Search' is offered exactly when the status shown for the job is
\* Exited, 'Cancel' exactly when it is neither Exited nor Downloaded, and
\* neither for a Downloaded job.
C20_MenuFollowsStatus ==
    jm_menu.item.key # NoKey =>
        LET status == jm_menu.item.tag[1] IN
        /\ ("Restart Search" \in jm_menu.actions) <=> (status = "Exited")
        /\ ("Cancel" \in jm_menu.actions) <=> (status \notin {"Exited", "Downloaded"})

\* A text of the form scheme://netloc...: a scheme of letters, "://", and a
\* network location that is not empty.
HasSchemeAndNetloc(t) ==
    \E i \in 1..Len(t) :
        /\ \A k \in 1..i : t[k] \in SchemeChars
        /\ Len(t) >= i + 4
        /\ t[i + 1] = ":" /\ t[i + 2] = "/" /\ t[i + 3] = "/"
        /\ t[i + 4] # "/"

\* C15: slpdb_endpoint_msg_box on a text that is not a URL with a scheme
\* and a network location shows the error box and leaves slp_gs_mgr's
\* endpoint list and the slider's maximum as they were; the list changes
\* only for a well-formed URL confirmed with Ok, and Cancel leaves it as it
\* was.
C15_EndpointAddedOnlyIfUrlAndOk ==
    sd_last.box # NoBox =>
        /\ ~HasSchemeAndNetloc(sd_last.text) =>
              /\ sd_last.box = "Error"
              /\ sd_last.hosts1 = sd_last.hosts0
              /\ sd_last.max1 = sd_last.max0
        /\ sd_last.hosts1 # sd_last.hosts0 =>
              /\ HasSchemeAndNetloc(sd_last.text)
              /\ sd_last.answer = "Ok"
              /\ sd_last.hosts1 = Append(sd_last.hosts0, sd_last.text)
        /\ sd_last.answer = "Cancel" => sd_last.hosts1 = sd_last.hosts0

\* C15: with an endpoint in the list, Add was clicked on a text that has a
\* scheme but no network location; the error box was shown and the list and
\* the slider's maximum are as before.
C15_Witness ==
    /\ sd_last.box = "Error"
    /\ sd_last.text = <<"a", ":", "/", "/">>
    /\ sd_last.hosts0 # <<>>
    /\ sd_hosts = sd_last.hosts0 /\ sd_max = Len(sd_hosts)

\* C16: hiding or closing the dialog stops the periodic work before the
\* handler returns: whenever the UI thread is not inside a handler and the
\* dialog is not visible, both timers are stopped and no detector thread is
\* running; and the detector runs only with the dialog visible on its Proxy
\* tab.
C16_HiddenDialogIsQuiet ==
    ui_pc = "idle" =>
        /\ ~visible => (~timers.refresh /\ ~timers.workaround
                          /\ ~running /\ nthreads = 0)
        /\ running => (visible /\ sh_tab = "proxy")

\* C16: the dialog was hidden with the Proxy tab shown and the worker in a
\* pass; stop() has waited for it and the timers are stopped.
C16_Witness ==
    /\ ~visible /\ ui_pc = "idle"
    /\ sh_tab = "proxy"
    /\ stopped /\ stopEarly
    /\ ~timers.refresh /\ ~running

\* C17: suggest_proxy, on_update and the layout's on_tor_port_changed,
\* on_server_list_updated and on_tor_status_changed run on the UI thread
\* only, whichever thread produced the call: the worker, the network thread
\* and the Tor controller's thread post them and do not run them.
C17_HandlersRunOnUiThread ==
    \A e \in ct_execs : e[1] \in UiHandlers => e[2] = UiThread

\* C17: each of the five handlers has run on the UI thread for a call that
\* another thread produced.
C17_Witness ==
    \A h \in UiHandlers :
        \E e \in ct_execs : e[1] = h /\ e[2] = UiThread /\ e[3] # UiThread

\* C21: after SlpSearchJobListWidget.update() the list holds one row for
\* each job of the snapshot, whatever the jobs' statuses: the downloading
\* ones first, then the downloaded ones in reverse snapshot order, then the
\* others in snapshot order.
C21_OneRowPerJob ==
    (lw_kind = "jobs" /\ lw_last.op = "update") =>
        LET items == [i \in 1..Len(lw_snap.jobs) |->
                         JobItem(lw_snap.jobs[i], lw_snap.gs_enabled)]
            n == Len(SelectSeq(items, IsDownloading))
        IN /\ Len(lw_rows) = Len(items)
           /\ \A i \in 1..Len(items) : \E k \in 1..Len(lw_rows) : lw_rows[k] = items[i]
           /\ \A k \in 1..Len(lw_rows) : k <= n => IsDownloading(lw_rows[k])
           /\ SelectSeq(lw_rows, IsDownloaded) = Reverse(SelectSeq(items, IsDownloaded))
           /\ SelectSeq(lw_rows, IsOtherItem) = SelectSeq(items, IsOtherItem)
           /\ \A k, m \in 1..Len(lw_rows) :
                  (IsDownloaded(lw_rows[k]) /\ IsOtherItem(lw_rows[m])) => k < m

\* C22: whenever tor_use is true the 'Use proxy' checkbox and the proxy
\* mode, host, port, user and password fields are disabled.
C22_TorUseLocksProxy ==
    nl.tor_use => (~nl.proxy_cb_enabled /\ ~nl.proxy_fields_enabled)

\* C22: the user has ticked the Tor checkbox: Tor is in use with 'Use proxy'
\* checked, and the checkbox and the fields are disabled.
C22_Witness ==
    /\ last.op = "use_tor_proxy"
    /\ nl.tor_use /\ nl.proxy_cb
    /\ ~nl.proxy_cb_enabled /\ ~nl.proxy_fields_enabled
    /\ net.proxy # ProxyNone

\* C23: the proxy mode, host, port, user and password fields are enabled
\* only while the 'Use proxy' checkbox is checked.
C23_FieldsNeedProxyCb == nl.proxy_fields_enabled => nl.proxy_cb

\* C24: suggest_proxy on not-found disables the Tor checkbox and sets
\* tor_use, and the config key 'tor_use', to false; on found (host, port) it
\* enables the Tor checkbox, records the proxy, and sets tor_use (and the
\* key) to true exactly when 'Use proxy' is checked with mode SOCKS5 and the
\* host and port fields equal to the found ones; so a found result for the
\* port use_tor_proxy(True) has filled in keeps tor_use true.
C24_SuggestProxy ==
    [][\A f \in ProbeResults :
          UI_suggest_proxy(f) =>
              /\ f = NoProxy =>
                    (~nl'.tor_cb_enabled /\ ~nl'.tor_use /\ ~cfg'.tor_use)
              /\ f # NoProxy =>
                    /\ nl'.tor_cb_enabled
                    /\ nl'.tor_proxy = f
                    /\ nl'.tor_use <=> (/\ nl.proxy_cb
                                        /\ nl.proxy_mode = "SOCKS5"
                                        /\ nl.proxy_host = f[1]
                                        /\ nl.proxy_port = Str(f[2]))
                    /\ cfg'.tor_use = nl'.tor_use
                    /\ (last.op = "use_tor_proxy" /\ nl.tor_use /\ f = nl.tor_proxy)
                          => nl'.tor_use]_vars

\* C24: a found result has arrived for the proxy in use, and tor_use is
\* still true and stored.
C24_Witness ==
    /\ last.op = "other" /\ ~last.upd
    /\ nl.tor_use /\ cfg.tor_use
    /\ nl.tor_cb_enabled /\ nl.tor_proxy # NoProxy
    /\ nl.proxy_cb /\ nl.proxy_port = Str(nl.tor_proxy[2])

\* C25: a banned server is never selected through the server list.
\* can_set_server is false for every blacklisted server and, in
\* preferred-only mode, for every server that is not whitelisted; on a row
\* flagged Banned the menu's 'Use as server' action is disabled and no
\* preferred action is offered; and every 'Use as server' step selects a
\* server that is not on the ban list (and is preferred in preferred-only
\* mode), which is then the host sent to the network.
C25_BannedNeverSelected ==
    [][/\ \A s \in ServerHosts :
            /\ s \in net.blacklist => ~can_set_server(net, s)
            /\ (net.whitelist_only /\ s \notin net.whitelist)
                 => ~can_set_server(net, s)
       /\ \A row \in nl.rows :
            IsBannedFlag(row.flagval) =>
              /\ ~ServerListWidget_create_menu(net, row).use_enabled
              /\ ~ServerListWidget_create_menu(net, row).fav_offered
       /\ \A h \in ServerHosts, f \in 0..(Banned + Preferred) :
            UI_use_as_server([server |-> h, flagval |-> f]) =>
              /\ h \notin net.blacklist
              /\ net.whitelist_only => h \in net.whitelist
              /\ net'.host = h
              /\ net'.host \notin net'.blacklist]_vars

\* A server was just selected from the list while another row is banned.
C25_Witness ==
    /\ last.op = "use_as_server"
    /\ net.blacklist # {}
    /\ net.host \notin net.blacklist
    /\ \E row \in nl.rows : IsBannedFlag(row.flagval)

\* C26: when the user finishes editing the server host, set_server sends to
\* network.set_parameters the host typed and the proxy just read from the
\* network; when the host ends in '.onion' in any letter case the protocol
\* sent is 't' and the SSL checkbox ends unchecked, and for any other host the
\* protocol is 's' if the SSL checkbox is checked and 't' otherwise, the
\* checkbox staying as it was.
C26_OnionForcesTcp ==
    [][UI_host_editingFinished =>
         /\ net'.host = nl.server_host
         /\ net'.proxy = net.proxy
         /\ IF nl.server_host[Len(nl.server_host)] \in {"onion", "ONION"}
            THEN net'.protocol = "t" /\ ~nl'.ssl_cb
            ELSE /\ net'.protocol = (IF nl.ssl_cb THEN "s" ELSE "t")
                 /\ nl'.ssl_cb = nl.ssl_cb]_vars

\* An upper-case .onion host was sent over TCP while a proxy is set, the SSL
\* checkbox now unchecked.
C26_Witness ==
    /\ net.host = <<"ABC", "ONION">>
    /\ net.protocol = "t"
    /\ ~nl.ssl_cb
    /\ ~nl.host_focus
    /\ nl.server_host = net.host
    /\ net.proxy # ProxyNone
    /\ last = Did("other", FALSE)

\* C27: clearing the ban list.  When the user confirms, on_clear_blacklist
\* makes one server_set_blacklisted(s, False, save) call per server that was
\* on the ban list, save being true on the last call only, the ban list ends
\* empty, the view is refreshed (no row keeps the Banned flag) and the result
\* is True; when the user declines, no call is made, the network and the view
\* are unchanged and the result is False.
C27_ClearBanList ==
    [][\A ok \in BOOLEAN :
         UI_on_clear_blacklist(ok) =>
           /\ bl_last'.ret = ok
           /\ IF ok
              THEN /\ Len(bl_calls') = Cardinality(net.blacklist)
                   /\ {bl_calls'[i].server : i \in DOMAIN bl_calls'}
                        = net.blacklist
                   /\ \A i \in DOMAIN bl_calls' :
                        /\ ~bl_calls'[i].bl
                        /\ bl_calls'[i].save <=> (i = Len(bl_calls'))
                   /\ net'.blacklist = {}
                   /\ bl_last'.upd
                   /\ nl' = update(nl, net', cfg)
                   /\ \A row \in nl'.rows : ~IsBannedFlag(row.flagval)
              ELSE /\ bl_calls' = <<>>
                   /\ ~bl_last'.upd
                   /\ net' = net
                   /\ nl' = nl]_vars

\* A ban list of two servers was just cleared: two unban calls, the second
\* one saving.
C27_Witness ==
    /\ bl_last.op = "on_clear_blacklist"
    /\ bl_last.ok /\ bl_last.ret
    /\ Cardinality(bl_last.bl0) = 2
    /\ Len(bl_calls) = 2
    /\ ~bl_calls[1].save /\ bl_calls[2].save
    /\ net.blacklist = {}

\* C28: whenever closeEvent shows the prompt and the user ticks "Don't ask me
\* again", non_ssl_noprompt is set in the config, whether the prompt was
\* confirmed or declined; once it is set it stays set, and every later
\* closeEvent shows no prompt and closes the dialog, whatever the SSL
\* checkbox, the Tor checkbox and the server host are.
C28_OptOutPersists ==
    [][/\ cfg.non_ssl_noprompt => cfg'.non_ssl_noprompt
       /\ \A ok \in BOOLEAN, chk \in BOOLEAN :
            UI_closeEvent(ok, chk) =>
              /\ (last'.asked /\ chk) => cfg'.non_ssl_noprompt
              /\ cfg.non_ssl_noprompt => (~last'.asked /\ ~visible')]_vars

\* With the opt-out stored at an earlier close, the dialog was closed without
\* a prompt although SSL and Tor are off and the host is no .onion host.
C28_Witness ==
    /\ last.op = "closeEvent"
    /\ last.noprompt0
    /\ cfg.non_ssl_noprompt
    /\ ~last.asked
    /\ ~visible
    /\ ~nl.ssl_cb /\ ~nl.tor_cb /\ ~IsOnion(nl.server_host)

====
